---- MODULE Spec2Model ----
(***************************************************************************)
(* Cache and invalidation engine of the Frame Accessibility Audit plugin   *)
(* (code.ts): the content fingerprint, the two cache tiers, and the        *)
(* message handlers of the plugin sandbox, run as asynchronous handlers    *)
(* that suspend at host calls.                                             *)
(*                                                                         *)
(* Strings are sequences of UTF-16 code units.  A colour component is a    *)
(* number of 1/100000ths; the model only uses components that are exact    *)
(* binary fractions, so the host's float32 storage and the JavaScript      *)
(* number-to-string conversion both keep the decimal as written.           *)
(***************************************************************************)
EXTENDS Integers, Sequences, FiniteSets, TLC

\* ------------------------------------------------------------------ bounds
\* Operations of remote clients in one behaviour.
MaxCalls == 2
\* Number of clock advances a behaviour may take.
MaxTicks == 1

\* ------------------------------------------------------- program constants
PLUGIN_VERSION == "1.0.0"
CACHE_DURATION == 7 * 24 * 60 * 60 * 1000
PLUGIN_DATA_KEY == "a11y-analysis"

\* A plugin version other than the running one (an earlier release that
\* wrote plugin data into the same document).
OLD_VERSION == "0.9.0"

\* selectedFrame = null
None == "none"

\* ---------------------------------------------------------------- strings
\* "Aa" and "BB"
TextAa == <<65, 97>>
TextBB == <<66, 66>>
\* "C"
TextC == <<67>>

RECURSIVE Concat(_)
Concat(ss) == IF ss = <<>> THEN <<>> ELSE Head(ss) \o Concat(Tail(ss))

RECURSIVE JoinComma(_)
\* Array elements of a JSON array / Array.prototype.join(','): separated by ",".
JoinComma(ss) ==
    IF ss = <<>> THEN <<>>
    ELSE IF Len(ss) = 1 THEN Head(ss)
    ELSE Head(ss) \o <<44>> \o JoinComma(Tail(ss))

RECURSIVE NatDigits(_)
\* Decimal digits of a natural number, as code units.
NatDigits(n) == IF n < 10 THEN <<48 + n>> ELSE NatDigits(n \div 10) \o <<48 + (n % 10)>>

RECURSIVE FractionDigits(_, _)
\* The digits of v / 10^width after the decimal point, trailing zeros dropped.
FractionDigits(v, width) ==
    IF v = 0 \/ width = 0 THEN <<>>
    ELSE LET unit == 10 ^ (width - 1)
         IN  <<48 + (v \div unit)>> \o FractionDigits(v % unit, width - 1)

\* Number-to-string of a colour component c / 100000 in 0..1 (template literal).
ComponentToString(c) ==
    IF c = 0 THEN <<48>>
    ELSE IF c = 100000 THEN <<49>>
    ELSE <<48, 46>> \o FractionDigits(c, 5)

\* JSON.stringify of one code unit inside a string literal.
JsonEscapeUnit(u) ==
    IF u = 34 THEN <<92, 34>>
    ELSE IF u = 92 THEN <<92, 92>>
    ELSE <<u>>

\* JSON.stringify of a string (code units from 32 up, no surrogates).
JsonString(s) == <<34>> \o Concat([i \in 1..Len(s) |-> JsonEscapeUnit(s[i])]) \o <<34>>

\* JSON.stringify of an array of strings.
JsonStringArray(ss) ==
    <<91>> \o JoinComma([i \in 1..Len(ss) |-> JsonString(ss[i])]) \o <<93>>

\* -------------------------------------------------------------- simpleHash
\* A 32-bit integer is a pair <<hi, lo>> of 16-bit halves (two's complement).
Half == 2 ^ 16

Int32Of(hi, lo) == <<hi % Half, lo % Half>>

\* hash << 5
ShiftLeft5(h) == Int32Of(h[1] * 32 + (h[2] * 32) \div Half, h[2] * 32)

\* a - b, reduced to 32 bits
Sub32(a, b) ==
    LET lo == a[2] - b[2]
        borrow == IF lo < 0 THEN 1 ELSE 0
    IN  Int32Of(a[1] - b[1] - borrow + Half, lo + Half)

\* a + char, reduced to 32 bits (hash = hash & hash)
AddChar32(a, ch) == Int32Of(a[1] + (a[2] + ch) \div Half, a[2] + ch)

\* Variant: the round does not subtract hash (hash * 32 + char).
HashStepTimes32(h, ch) == AddChar32(ShiftLeft5(h), ch)

\* One round of the loop: hash = ((hash << 5) - hash) + char; hash = hash & hash.
HashStep(h, ch) == AddChar32(Sub32(ShiftLeft5(h), h), ch)

IsInt32(h) == h[1] \in 0..(Half - 1) /\ h[2] \in 0..(Half - 1)

RECURSIVE HashFold(_, _, _)
\* for (let i = 0; i < str.length; i++): the rounds from code unit i on.  The
\* range test makes the round's value be computed before the next round starts.
HashFold(h, str, i) ==
    IF i > Len(str) THEN h
    ELSE LET next == HashStep(h, str[i])
         IN  IF IsInt32(next) THEN HashFold(next, str, i + 1) ELSE next

\* Math.abs of a 32-bit integer; the magnitude of -2^31 is 2^31 = <<32768, 0>>.
Abs32(h) ==
    IF h[1] < 32768 THEN h
    ELSE IF h[2] = 0 THEN <<Half - h[1], 0>>
    ELSE <<Half - 1 - h[1], Half - h[2]>>

Base36Digit(d) == IF d < 10 THEN 48 + d ELSE 87 + d

RECURSIVE ToString36(_)
\* Number.prototype.toString(36) of a magnitude <<hi, lo>>.
ToString36(m) ==
    LET rem1 == m[1] % 36
        mid == rem1 * Half + m[2]
        quot == <<m[1] \div 36, mid \div 36>>
        digit == <<Base36Digit(mid % 36)>>
    IN  IF quot = <<0, 0>> THEN digit ELSE ToString36(quot) \o digit

simpleHash(str) == ToString36(Abs32(HashFold(<<0, 0>>, str, 1)))

\* --------------------------------------------------------------- document
\* The page holds two frames.  F1 is FRAME[GROUP[TEXT, RECTANGLE]], F2 is
\* FRAME[TEXT]; the text leaf of F1 can be edited (characters, fill colour).
Frames == {"F1", "F2"}

\* Solid fill colours of the text leaves, as <<r, g, b>> in 1/100000ths:
\* (0.53125, 0.3125, 0.375), (0.5625, 0.78125, 0.96875) and black.
ColorPlum == <<53125, 31250, 37500>>
ColorSky == <<56250, 78125, 96875>>
ColorBlack == <<0, 0, 0>>
\* (0.58383, 0.58383, 0.58383): the grey whose contrast to white is 3.00.
ColorGrey == <<58383, 58383, 58383>>

TextPool == {TextAa, TextBB, TextC}
ColorPool == {ColorPlum, ColorSky, ColorBlack}

SolidFill(c) == [type |-> "SOLID", color |-> c]
\* x is the node's position: one of the properties no fingerprint reads.
\* The letter spacing that the document gives a new text.
DefaultSpacing == [unit |-> "PERCENT", value |-> 0]
TextNode(id, chars, c) ==
    [type |-> "TEXT", id |-> id, characters |-> chars, fills |-> <<SolidFill(c)>>,
     x |-> 0, letterSpacing |-> DefaultSpacing]
RectangleNode(id) == [type |-> "RECTANGLE", id |-> id, fills |-> <<>>]

\* F1 with its text leaf at position x, with or without the rectangle.
F1Content(chars, c, x, withRect) ==
    [type |-> "FRAME", id |-> "F1",
     children |-> << [type |-> "GROUP", id |-> "F1.group",
                      children |-> << [TextNode("F1.text", chars, c) EXCEPT !.x = x] >>
                                   \o (IF withRect THEN << RectangleNode("F1.rect") >>
                                       ELSE <<>>)] >>]
MkFrame1(chars, c) == F1Content(chars, c, 0, TRUE)
MkFrame2 ==
    [type |-> "FRAME", id |-> "F2",
     children |-> << TextNode("F2.text", TextC, ColorBlack) >>]

HasChildren(n) == "children" \in DOMAIN n

RECURSIVE collectTextContent(_)
collectTextContent(n) ==
    (IF n.type = "TEXT" THEN <<n.characters>> ELSE <<>>)
    \o (IF HasChildren(n)
        THEN Concat([i \in 1..Len(n.children) |-> collectTextContent(n.children[i])])
        ELSE <<>>)

\* `${fill.color.r},${fill.color.g},${fill.color.b}`
ColorString(c) ==
    ComponentToString(c[1]) \o <<44>> \o ComponentToString(c[2]) \o <<44>>
    \o ComponentToString(c[3])

SolidColorStrings(fills) ==
    LET solid == SelectSeq(fills, LAMBDA fill : fill.type = "SOLID")
    IN  [i \in 1..Len(solid) |-> ColorString(solid[i].color)]

RECURSIVE collectColors(_)
collectColors(n) ==
    (IF n.type = "TEXT" THEN SolidColorStrings(n.fills) ELSE <<>>)
    \o (IF HasChildren(n)
        THEN Concat([i \in 1..Len(n.children) |-> collectColors(n.children[i])])
        ELSE <<>>)

\* JSON.stringify({childCount, texts, colors})
FingerprintJson(childCount, texts, colors) ==
    <<123, 34, 99, 104, 105, 108, 100, 67, 111, 117, 110, 116, 34, 58>>
    \o NatDigits(childCount)
    \o <<44, 34, 116, 101, 120, 116, 115, 34, 58>> \o JsonStringArray(texts)
    \o <<44, 34, 99, 111, 108, 111, 114, 115, 34, 58>> \o JsonStringArray(colors)
    \o <<125>>

\* const fingerprint = { childCount, texts, colors }, as JSON text.
fingerprint(frame) ==
    FingerprintJson(Len(frame.children), collectTextContent(frame), collectColors(frame))

RECURSIVE collectTextContentPositioned(_)
\* Variant: the summary of a text leaf also holds its position.
collectTextContentPositioned(n) ==
    (IF n.type = "TEXT" THEN <<n.characters \o NatDigits(n.x)>> ELSE <<>>)
    \o (IF HasChildren(n)
        THEN Concat([i \in 1..Len(n.children) |->
                        collectTextContentPositioned(n.children[i])])
        ELSE <<>>)
generateContentHashPositioned(frame) ==
    simpleHash(FingerprintJson(Len(frame.children), collectTextContentPositioned(frame),
                               collectColors(frame)))

generateContentHash(frame) == simpleHash(fingerprint(frame))

\* Every content a frame of the model can have, and its fingerprint (the hash
\* of a given content never changes, so it is computed once per content).
\* The overlay that createOverlayFrame draws: a frame named OverlayName (the
\* id stands for the name) with a dashed box and a label for each issue, red
\* (0.95, 0.26, 0.21) for a failure and amber (1, 0.76, 0.03) for a warning.
OverlayName == "A11Y Overlay"
IssueRed == <<95000, 26000, 21000>>
IssueAmber == <<100000, 76000, 3000>>
HighlightBox == [type |-> "RECTANGLE", id |-> "Issue box", fills |-> <<>>]
Label(severity) ==
    IF severity = "fail" THEN TextNode("Issue label", <<10005>>, IssueRed)
    ELSE TextNode("Issue label", <<9888>>, IssueAmber)
OverlayFrame(severities) ==
    [type |-> "FRAME", id |-> OverlayName,
     children |-> Concat([i \in 1..Len(severities) |->
                             <<HighlightBox, Label(severities[i])>>])]

\* F2 with its text in a colour of low contrast, and F1 as the frame that
\* holds such an F2 as its child, followed by what else it holds.
LowContrastFrame2 == [MkFrame2 EXCEPT !.children[1].fills = <<SolidFill(ColorSky)>>]
Outer(others) == [type |-> "FRAME", id |-> "F1", children |-> <<LowContrastFrame2>> \o others]

\* The letter spacing that a fix sets, in pixels.
FixedSpacing == [value |-> 2, unit |-> "PIXELS"]

FrameContents ==
    { [F1Content(t, c, x, withRect)
         EXCEPT !.children[1].children[1].letterSpacing = spacing] :
        t \in TextPool, c \in ColorPool, x \in {0, 1}, withRect \in BOOLEAN,
        spacing \in {DefaultSpacing, FixedSpacing} }
    \cup {MkFrame2, LowContrastFrame2}
    \cup { Outer(others) : others \in {<<>>, <<OverlayFrame(<<>>)>>,
                                           <<OverlayFrame(<<"fail">>)>>} }
ContentHashOf == [frame \in FrameContents |-> generateContentHash(frame)]

\* ------------------------------------------------- supabase-client.ts
\* The user ids that clients are created with.
Owners == {"figma-user-A", "figma-user-B"}

\* SupabaseClient.request(path, method, body), as what it hands to fetch.
request(path, method, body) == [path |-> path, method |-> method, body |-> body]
\* Of the analysis record the frame, the user and the fingerprint are kept;
\* the body is { ...analysis, user_id: this.userId }.
AnalysisRecord(frame_id, user_id, content_hash) ==
    [frame_id |-> frame_id, user_id |-> user_id, content_hash |-> content_hash]
saveAnalysis(userId, analysis) ==
    request("/frame_analyses", "POST", [analysis EXCEPT !.user_id = userId])
getLatestAnalysis(userId, frameId) ==
    request("/rpc/get_latest_analysis", "POST",
            [p_frame_id |-> frameId, p_user_id |-> userId])
detectFrameChange(frameId, previousHash, currentHash) ==
    request("/rpc/detect_frame_change", "POST",
            [p_frame_id |-> frameId, p_previous_hash |-> previousHash,
             p_current_hash |-> currentHash])
resolveFrameChanges(frameId) ==
    request("/rpc/resolve_frame_changes", "POST", [p_frame_id |-> frameId])

\* The outcome of an operation: the promise resolves with a value or rejects.
NothingReturned == [op |-> "none", by |-> "none", outcome |-> "none", value |-> [kind |-> "none"]]

\* The pages of the document.
Pages == {"Page 1", "Page 2"}

\* ------------------------------------------------------------------ state
VARIABLES
    now,            \* Date.now(), in ms since the plugin was started
    ticks,          \* clock advances taken so far
    doc,            \* the page: frame id -> frame node with its subtree
    selectedFrame,  \* let selectedFrame: a frame id, or None for null
    analysisCache,  \* tier 1: const analysisCache = new Map(), by frame.id
    pluginData,     \* tier 2: frame.getPluginData(PLUGIN_DATA_KEY), by frame
    currentIssues,  \* let currentIssues
    shared,         \* the frames whose tier-1 entry has as its results the very
                    \* array that currentIssues refers to
    isPaused,       \* let isPaused
    req,            \* the running invocations of the 'analyze' handler
    posted,         \* what the last step told the UI about results and caches
                    \* (status notices such as 'analysis-paused' are left out)
    currentPage,    \* figma.currentPage
    requests,       \* what SupabaseClient.request has handed to fetch, in order
    frame_analyses, \* the rows of table frame_analyses
    frame_changes,  \* the rows of table frame_changes
    returned        \* how the last operation of a remote client ended

vars == <<now, ticks, doc, selectedFrame, analysisCache, pluginData,
          currentIssues, shared, isPaused, req, posted, currentPage, requests,
          frame_analyses, frame_changes, returned>>

\* What the plugin's handlers never touch: code.ts constructs no client.
remote == <<requests, frame_analyses, frame_changes, returned>>
\* What the operations of a client never touch.
plugin == <<now, ticks, doc, selectedFrame, analysisCache, pluginData,
            currentIssues, shared, isPaused, req, posted, currentPage>>

\* The page each frame lies on: F1 on the first page, and F2 on the second
\* unless it is a child of F1.
PageOf ==
    [f \in Frames |->
        IF f = "F1" \/ \E k \in 1..Len(doc["F1"].children) : doc["F1"].children[k].id = f
        THEN "Page 1" ELSE "Page 2"]

\* Invocations of the asynchronous 'analyze' handler that can be suspended at
\* the same time; a new message takes the lowest free one.
Reqs == {1, 2}

\* ------------------------------------------------------------ cache entries
NoEntry == [kind |-> "absent"]
CachedAnalysis(timestamp, version, contentHash, results) ==
    [kind |-> "entry", timestamp |-> timestamp, version |-> version,
     contentHash |-> contentHash, results |-> results]

\* Plugin data is a string: '' (nothing stored), the JSON text of an entry, or
\* text that JSON.parse rejects.
EmptyData == [kind |-> "empty"]
CorruptData == [kind |-> "corrupt"]
JSONstringify(cached) ==
    [kind |-> "json",
     value |-> [timestamp |-> cached.timestamp, version |-> cached.version,
                contentHash |-> cached.contentHash, results |-> cached.results]]
\* JSON.parse of JSON text (the caller has excluded '' and text that throws).
JSONparse(data) ==
    CachedAnalysis(data.value.timestamp, data.value.version,
                   data.value.contentHash, data.value.results)

\* Variant: an entry aged exactly CACHE_DURATION counts as expired.
isExpiredAtDuration(timestamp) == (now - timestamp) >= CACHE_DURATION

isExpired(timestamp) == (now - timestamp) > CACHE_DURATION

\* Variant: the version of the entry is not looked at.
isCacheValidAnyVersion(frame, cached) ==
    IF (now - cached.timestamp) > CACHE_DURATION THEN FALSE
    ELSE IF ContentHashOf[doc[frame]] # cached.contentHash THEN FALSE
    ELSE TRUE

isCacheValid(frame, cached) ==
    IF isExpired(cached.timestamp) THEN FALSE
    ELSE IF cached.version # PLUGIN_VERSION THEN FALSE
    ELSE IF ContentHashOf[doc[frame]] # cached.contentHash THEN FALSE
    ELSE TRUE

\* clearFrameCache, as the two tiers it leaves behind
ClearedTier1(cache, frame) == [cache EXCEPT ![frame] = NoEntry]
\* Variant: the plugin data of the frame is left as it is.
KeptTier2(data, frame) == data
ClearedTier2(data, frame) == [data EXCEPT ![frame] = EmptyData]

\* An entry that leaves tier 1 no longer shares its array with currentIssues
\* (analysisCache.delete, analysisCache.clear).
StillShared(tier1) == {f \in shared : tier1[f].kind = "entry"}
\* currentIssues.push(...): the entries that hold the same array see the push.
Pushed(tier1, issues) ==
    [f \in Frames |-> IF f \in shared /\ tier1[f].kind = "entry"
                      THEN [tier1[f] EXCEPT !.results = issues] ELSE tier1[f]]

\* Variant: the catch of JSON.parse also empties the frame's plugin data.
getCachedAnalysisEvictingCorrupt(frame) ==
    LET inMemory == analysisCache[frame]
        data == pluginData[frame]
    IN  IF inMemory.kind = "absent" /\ data.kind = "corrupt"
        THEN [result |-> NoEntry, tier1 |-> analysisCache,
              tier2 |-> ClearedTier2(pluginData, frame)]
        ELSE IF inMemory.kind = "absent" /\ data.kind = "empty"
        THEN [result |-> NoEntry, tier1 |-> analysisCache, tier2 |-> pluginData]
        ELSE LET cached == IF inMemory.kind = "entry" THEN inMemory
                           ELSE JSONparse(data)
                 filled == [analysisCache EXCEPT ![frame] = cached]
             IN  IF isCacheValid(frame, cached)
                 THEN [result |-> cached, tier1 |-> filled, tier2 |-> pluginData]
                 ELSE [result |-> NoEntry,
                       tier1 |-> ClearedTier1(filled, frame),
                       tier2 |-> ClearedTier2(pluginData, frame)]

\* Variant: a lookup that returns an entry gives it the time of the read.
getCachedAnalysisRefreshing(frame) ==
    LET inMemory == analysisCache[frame]
        data == pluginData[frame]
    IN  IF inMemory.kind = "absent" /\ data.kind \in {"corrupt", "empty"}
        THEN [result |-> NoEntry, tier1 |-> analysisCache, tier2 |-> pluginData]
        ELSE LET cached == IF inMemory.kind = "entry" THEN inMemory ELSE JSONparse(data)
                 read == [cached EXCEPT !.timestamp = now]
             IN  IF isCacheValid(frame, cached)
                 THEN [result |-> cached,
                       tier1 |-> [analysisCache EXCEPT ![frame] = read],
                       tier2 |-> pluginData]
                 ELSE [result |-> NoEntry,
                       tier1 |-> ClearedTier1(analysisCache, frame),
                       tier2 |-> ClearedTier2(pluginData, frame)]

\* Variant: when the entry of tier 1 fails validation, the plugin data is
\* read and its entry, if valid, replaces the one of tier 1.
getCachedAnalysisFallingBack(frame) ==
    LET inMemory == analysisCache[frame]
        data == pluginData[frame]
        first == IF inMemory.kind = "entry" /\ ~isCacheValid(frame, inMemory)
                       /\ data.kind = "json" /\ isCacheValid(frame, JSONparse(data))
                 THEN NoEntry ELSE inMemory
    IN  IF first.kind = "absent" /\ data.kind \in {"corrupt", "empty"}
        THEN [result |-> NoEntry, tier1 |-> analysisCache, tier2 |-> pluginData]
        ELSE LET cached == IF first.kind = "entry" THEN first ELSE JSONparse(data)
                 filled == [analysisCache EXCEPT ![frame] = cached]
             IN  IF isCacheValid(frame, cached)
                 THEN [result |-> cached, tier1 |-> filled, tier2 |-> pluginData]
                 ELSE [result |-> NoEntry,
                       tier1 |-> ClearedTier1(filled, frame),
                       tier2 |-> ClearedTier2(pluginData, frame)]

\* getCachedAnalysis(frame): what it returns and the tiers it leaves behind.
getCachedAnalysis(frame) ==
    LET unchanged == [tier1 |-> analysisCache, tier2 |-> pluginData]
        inMemory == analysisCache[frame]
        data == pluginData[frame]
    IN  IF inMemory.kind = "absent" /\ data.kind = "corrupt"
        THEN \* JSON.parse throws: logged, return null
             [result |-> NoEntry] @@ unchanged
        ELSE IF inMemory.kind = "absent" /\ data.kind = "empty"
        THEN [result |-> NoEntry] @@ unchanged
        ELSE LET cached == IF inMemory.kind = "entry" THEN inMemory
                           ELSE JSONparse(data)
                 filled == [analysisCache EXCEPT ![frame] = cached]
             IN  IF isCacheValid(frame, cached)
                 THEN [result |-> cached, tier1 |-> filled, tier2 |-> pluginData]
                 ELSE [result |-> NoEntry,
                       tier1 |-> ClearedTier1(filled, frame),
                       tier2 |-> ClearedTier2(pluginData, frame)]

\* getCacheAge(timestamp): `${n}d ago`, `${n}h ago`, `${n}m ago` or 'just now'
getCacheAge(timestamp) ==
    LET ageMs == now - timestamp
        ageMinutes == ageMs \div 60000
        ageHours == ageMinutes \div 60
        ageDays == ageHours \div 24
    IN  IF ageDays > 0 THEN [count |-> ageDays, unit |-> "d ago"]
        ELSE IF ageHours > 0 THEN [count |-> ageHours, unit |-> "h ago"]
        ELSE IF ageMinutes > 0 THEN [count |-> ageMinutes, unit |-> "m ago"]
        ELSE [count |-> 0, unit |-> "just now"]

\* ------------------------------------------------------------------- issues
\* getContrastRatio(textColor, white) in hundredths, for the colours of
\* ColorPool against the default white background: 6.28, 1.79 and 21.
ContrastRatio100(color) ==
    CASE color = ColorPlum -> 628
      [] color = ColorSky -> 179
      [] color = ColorBlack -> 2100
      [] color = ColorGrey -> 300

\* checkTextContrast's verdict on a text node of normal size (AA 4.5, AAA 7.0).
ContrastIssues(textNode) ==
    LET ratio == ContrastRatio100(textNode.fills[1].color)
    IN  IF ratio < 450
        THEN << [elementId |-> textNode.id, issueType |-> "Color Contrast",
                 severity |-> "fail", wcagLevel |-> "AA"] >>
        ELSE IF ratio < 700
        THEN << [elementId |-> textNode.id, issueType |-> "Color Contrast",
                 severity |-> "warning", wcagLevel |-> "AAA"] >>
        ELSE <<>>

\* groupIssuesByElement: one group per element, in order of first appearance,
\* each issue with its index in the ungrouped list (0-based).
IssueKey(issue) == issue.elementId
RECURSIVE GroupKeys(_, _)
GroupKeys(issues, seen) ==
    IF issues = <<>> THEN <<>>
    ELSE IF IssueKey(Head(issues)) \in seen THEN GroupKeys(Tail(issues), seen)
    ELSE <<IssueKey(Head(issues))>>
         \o GroupKeys(Tail(issues), seen \cup {IssueKey(Head(issues))})
groupIssuesByElement(issues) ==
    LET keys == GroupKeys(issues, {})
        indexed == [i \in 1..Len(issues) |-> [issue |-> issues[i], index |-> i - 1]]
    IN  [k \in 1..Len(keys) |->
            [elementId |-> keys[k],
             issues |-> SelectSeq(indexed, LAMBDA x : IssueKey(x.issue) = keys[k])]]

\* ---------------------------------------------------- analyzeFrame's checks
\* The style of a text node, as far as the checks read it.  fontWeight is a
\* number; lengths are in pixels.
FontSizes == {12, 14, 18}
FontWeights == {400, 700}
LetterSpacings == { [unit |-> "PIXELS", value |-> 0], [unit |-> "PIXELS", value |-> 3],
                    [unit |-> "PERCENT", value |-> 20] }
LineHeights == { [unit |-> "AUTO"], [unit |-> "PIXELS", value |-> 12],
                 [unit |-> "PIXELS", value |-> 30] }
ParagraphSpacings == {0, 40}

StyledText(id, c, fontSize, fontWeight, letterSpacing, lineHeight, paragraphSpacing) ==
    [fontSize |-> fontSize, fontWeight |-> fontWeight,
     letterSpacing |-> letterSpacing, lineHeight |-> lineHeight,
     paragraphSpacing |-> paragraphSpacing]
    @@ TextNode(id, TextAa, c)
\* F1 as FRAME[TEXT]: a frame whose only content is one text node.
OneTextFrame(textNode) == [type |-> "FRAME", id |-> "F1", children |-> <<textNode>>]

\* msg.checks
Checks == [colorContrast : BOOLEAN, textSpacing : BOOLEAN, lineHeight : BOOLEAN,
           paragraphSpacing : BOOLEAN, nonTextContrast : BOOLEAN]
\* textNode.fontName is figma.mixed; the node's font loads; only the fallback
\* Inter Regular loads; neither loads.
Fonts == {"mixed", "loaded", "fallback", "none"}

Issue(node, issueType, severity, wcagLevel) ==
    [elementId |-> node.id, issueType |-> issueType, severity |-> severity,
     wcagLevel |-> wcagLevel]

\* fontSize >= 18 || (fontSize >= 14 && fontWeight >= 700)
isLargeText(textNode) ==
    textNode.fontSize >= 18 \/ (textNode.fontSize >= 14 /\ textNode.fontWeight >= 700)
\* aaRequired and aaaRequired, in hundredths
aaRequired(textNode) == IF isLargeText(textNode) THEN 300 ELSE 450
aaaRequired(textNode) == IF isLargeText(textNode) THEN 450 ELSE 700

\* Variant: every text is judged by the thresholds of large text.
checkTextContrastAsLarge(textNode, font) ==
    IF font \in {"mixed", "none"} THEN <<>>
    ELSE LET ratio == ContrastRatio100(textNode.fills[1].color)
         IN  IF ratio < 300
             THEN << Issue(textNode, "Color Contrast", "fail", "AA") >>
             ELSE IF ratio < 450
             THEN << Issue(textNode, "Color Contrast", "warning", "AAA") >>
             ELSE <<>>

\* checkTextContrast: the issues it pushes.
checkTextContrast(textNode, font) ==
    IF font \in {"mixed", "none"} THEN <<>>
    ELSE LET ratio == ContrastRatio100(textNode.fills[1].color)
         IN  IF ratio < aaRequired(textNode)
             THEN << Issue(textNode, "Color Contrast", "fail", "AA") >>
             ELSE IF ratio < aaaRequired(textNode)
             THEN << Issue(textNode, "Color Contrast", "warning", "AAA") >>
             ELSE <<>>

\* checkTextSpacing, in hundredths of a pixel: required is fontSize * 0.12.
checkTextSpacing(textNode) ==
    LET currentSpacing ==
            CASE textNode.letterSpacing.unit = "PIXELS" -> textNode.letterSpacing.value * 100
              [] textNode.letterSpacing.unit = "PERCENT" ->
                    textNode.letterSpacing.value * textNode.fontSize
              [] OTHER -> 0
        requiredSpacing == textNode.fontSize * 12
    IN  IF currentSpacing < requiredSpacing
        THEN << Issue(textNode, "Text Spacing", "fail", "AA") >>
        ELSE <<>>

\* checkLineHeight, in hundredths of a pixel: required is fontSize * 1.5.
checkLineHeight(textNode) ==
    LET currentLineHeight ==
            CASE textNode.lineHeight.unit = "PIXELS" -> textNode.lineHeight.value * 100
              [] textNode.lineHeight.unit = "PERCENT" ->
                    textNode.lineHeight.value * textNode.fontSize
              [] OTHER -> textNode.fontSize * 150
        requiredLineHeight == textNode.fontSize * 150
    IN  IF currentLineHeight < requiredLineHeight
        THEN << Issue(textNode, "Line Height", "fail", "AA") >>
        ELSE <<>>

\* checkParagraphSpacing: required is fontSize * 2.0.
checkParagraphSpacing(textNode) ==
    IF textNode.paragraphSpacing < textNode.fontSize * 2
    THEN << Issue(textNode, "Paragraph Spacing", "fail", "AA") >>
    ELSE <<>>

\* checkNonTextContrast, against the default white background.
checkNonTextContrast(node) ==
    IF Len(node.fills) > 0 /\ node.fills[1].type = "SOLID"
          /\ ContrastRatio100(node.fills[1].color) < 300
    THEN << Issue(node, "Non-text Contrast", "fail", "AA") >>
    ELSE <<>>

\* analyzeFrame's checkNode: the issues pushed for the node, then those of
\* its children in order.
RECURSIVE checkNode(_, _, _)
checkNode(node, checks, font) ==
    (IF node.type = "TEXT"
     THEN (IF checks.colorContrast THEN checkTextContrast(node, font) ELSE <<>>)
          \o (IF checks.textSpacing THEN checkTextSpacing(node) ELSE <<>>)
          \o (IF checks.lineHeight THEN checkLineHeight(node) ELSE <<>>)
          \o (IF checks.paragraphSpacing THEN checkParagraphSpacing(node) ELSE <<>>)
     ELSE <<>>)
    \o (IF checks.nonTextContrast /\ node.type \in {"RECTANGLE", "ELLIPSE", "VECTOR"}
        THEN checkNonTextContrast(node) ELSE <<>>)
    \o (IF HasChildren(node)
        THEN Concat([i \in 1..Len(node.children) |->
                        checkNode(node.children[i], checks, font)])
        ELSE <<>>)
analyzeFrame(frame, checks, font) == checkNode(frame, checks, font)

\* ----------------------------------------------------------------- messages
\* Variant: a cache hit that is reported like a fresh result.
CacheHitMessageUntagged(cached) ==
    [type |-> "analysis-complete", issues |-> groupIssuesByElement(cached.results),
     totalIssues |-> Len(cached.results), fromCache |-> FALSE,
     cacheAge |-> getCacheAge(cached.timestamp)]
CacheHitMessage(cached) ==
    [type |-> "analysis-complete", issues |-> groupIssuesByElement(cached.results),
     totalIssues |-> Len(cached.results), fromCache |-> TRUE,
     cacheAge |-> getCacheAge(cached.timestamp)]
FreshMessage(issues) ==
    [type |-> "analysis-complete", issues |-> groupIssuesByElement(issues),
     totalIssues |-> Len(issues), fromCache |-> FALSE]
\* catch (error): 'Analysis failed: ' + error
FailedMessage == [type |-> "error", message |-> "Analysis failed"]
NoFrameMessage == [type |-> "error", message |-> "Please select a frame first"]

\* A message as the UI receives it, with the handler invocation that posted it
\* and the number of traversals that invocation had started by then.
By(p, calls, msg) == [by |-> p, driverCalls |-> calls] @@ msg

\* ------------------------------------------------------------------- Init
IdleReq == [pc |-> "idle", frame |-> None, force |-> FALSE, pos |-> 0, driverCalls |-> 0]

\* What an earlier session may have left in a frame's plugin data: nothing,
\* an entry of this or of an earlier plugin version, or unparsable text.
StoredBefore(frame) ==
    { EmptyData, CorruptData,
      JSONstringify(CachedAnalysis(0, PLUGIN_VERSION, ContentHashOf[frame], <<>>)),
      JSONstringify(CachedAnalysis(0, OLD_VERSION, ContentHashOf[frame], <<>>)) }

\* The plugin has just been started on a page with the frames F1 and F2.
Started(texts, colors, stored) ==
    /\ now = 0
    /\ ticks = 0
    /\ \E t \in texts, c \in colors :
          /\ doc = [f \in Frames |-> IF f = "F1" THEN MkFrame1(t, c) ELSE MkFrame2]
          /\ \E d \in (IF stored THEN StoredBefore(MkFrame1(t, c)) ELSE {EmptyData}) :
                pluginData = [f \in Frames |-> IF f = "F1" THEN d ELSE EmptyData]
    /\ selectedFrame = None
    /\ analysisCache = [f \in Frames |-> NoEntry]
    /\ currentIssues = <<>>
    /\ shared = {}
    /\ isPaused = FALSE
    /\ req = [p \in Reqs |-> IdleReq]
    /\ posted = <<>>
    /\ currentPage = PageOf["F1"]
    /\ requests = <<>>

\* No client has been used, and the tables are empty.
NoHistory ==
    /\ frame_analyses = {}
    /\ frame_changes = {}
    /\ returned = NothingReturned

Init == Started({TextAa}, {ColorBlack}, TRUE) /\ NoHistory

\* ------------------------------------------------------- the environment
\* Time passes: by the cache duration, or by a millisecond more.
Tick(d) ==
    /\ ticks < MaxTicks
    /\ ticks' = ticks + 1
    /\ now' = now + d
    /\ posted' = <<>>
    /\ UNCHANGED <<currentPage, remote, shared>>
    /\ UNCHANGED <<doc, selectedFrame, analysisCache, pluginData, currentIssues,
                   isPaused, req>>

F1Text == doc["F1"].children[1].children[1]

\* The user retypes the text leaf of F1.
EditText(chars) ==
    /\ chars # F1Text.characters
    /\ doc' = [doc EXCEPT !["F1"].children[1].children[1].characters = chars]
    /\ posted' = <<>>
    /\ UNCHANGED <<currentPage, remote, shared>>
    /\ UNCHANGED <<now, ticks, selectedFrame, analysisCache, pluginData,
                   currentIssues, isPaused, req>>

\* The user gives the text leaf of F1 another solid fill colour.
EditColor(c) ==
    /\ c # F1Text.fills[1].color
    /\ doc' = [doc EXCEPT !["F1"].children[1].children[1].fills = <<SolidFill(c)>>]
    /\ posted' = <<>>
    /\ UNCHANGED <<currentPage, remote, shared>>
    /\ UNCHANGED <<now, ticks, selectedFrame, analysisCache, pluginData,
                   currentIssues, isPaused, req>>

\* The user drags the text leaf of F1 to another position.
MoveText ==
    /\ doc' = [doc EXCEPT !["F1"].children[1].children[1].x = 1 - @]
    /\ posted' = <<>>
    /\ UNCHANGED <<shared, now, ticks, selectedFrame, analysisCache, pluginData,
                   currentIssues, isPaused, req, currentPage, remote>>

\* The user deletes the rectangle inside the group of F1, or draws it again.
ToggleRect ==
    /\ doc' = [doc EXCEPT !["F1"].children[1].children =
                   IF Len(@) = 1 THEN @ \o << RectangleNode("F1.rect") >>
                   ELSE << @[1] >>]
    /\ posted' = <<>>
    /\ UNCHANGED <<shared, now, ticks, selectedFrame, analysisCache, pluginData,
                   currentIssues, isPaused, req, currentPage, remote>>

\* ------------------------------------------------- figma.on('selectionchange')
\* The selection is empty, holds several nodes, or holds a node that is no frame.
SelectNoFrame ==
    /\ selectedFrame' = None
    /\ posted' = <<>>
    /\ UNCHANGED <<currentPage, remote, shared>>
    /\ UNCHANGED <<now, ticks, doc, analysisCache, pluginData, currentIssues,
                   isPaused, req>>

\* The user opens another page, on which nothing is selected.
SwitchPage(pg) ==
    /\ pg # currentPage
    /\ currentPage' = pg
    /\ selectedFrame' = None
    /\ posted' = <<>>
    /\ UNCHANGED <<shared, now, ticks, doc, analysisCache, pluginData, currentIssues,
                   isPaused, req, remote>>

\* figma.currentPage.selection holds exactly the frame f.
SelectFrame(f) ==
    LET got == getCachedAnalysis(f)
    IN  /\ PageOf[f] = currentPage
        /\ selectedFrame' = f
        /\ analysisCache' = got.tier1
        /\ pluginData' = got.tier2
        /\ posted' = IF got.result.kind = "entry"
                     THEN << [type |-> "cache-available",
                              age |-> getCacheAge(got.result.timestamp)] >>
                     ELSE <<>>
        /\ shared' = StillShared(analysisCache')
        /\ UNCHANGED <<currentPage, remote>>
        /\ UNCHANGED <<now, ticks, doc, currentIssues, isPaused, req>>

\* --------------------------------------- figma.ui.onmessage, the short handlers
PauseAnalysis ==
    /\ isPaused' = TRUE
    /\ posted' = <<>>
    /\ UNCHANGED <<currentPage, remote, shared>>
    /\ UNCHANGED <<now, ticks, doc, selectedFrame, analysisCache, pluginData,
                   currentIssues, req>>

\* A resume handler that leaves the flag up.
ResumeAnalysisLeavingFlag ==
    /\ isPaused' = isPaused
    /\ posted' = <<>>
    /\ UNCHANGED <<currentPage, remote, shared>>
    /\ UNCHANGED <<now, ticks, doc, selectedFrame, analysisCache, pluginData,
                   currentIssues, req>>

ResumeAnalysis ==
    /\ isPaused' = FALSE
    /\ posted' = <<>>
    /\ UNCHANGED <<currentPage, remote, shared>>
    /\ UNCHANGED <<now, ticks, doc, selectedFrame, analysisCache, pluginData,
                   currentIssues, req>>

\* msg.type === 'clear-cache'
ClearCache ==
    /\ IF selectedFrame # None
       THEN /\ analysisCache' = ClearedTier1(analysisCache, selectedFrame)
            /\ pluginData' = ClearedTier2(pluginData, selectedFrame)
            /\ posted' = << [type |-> "cache-cleared"] >>
       ELSE /\ posted' = <<>>
            /\ UNCHANGED <<analysisCache, pluginData>>
    /\ shared' = StillShared(analysisCache')
    /\ UNCHANGED <<currentPage, remote>>
    /\ UNCHANGED <<now, ticks, doc, selectedFrame, currentIssues, isPaused, req>>

\* msg.type === 'clear-all-caches': clearAllCaches()
ClearAllCaches ==
    /\ analysisCache' = [f \in Frames |-> NoEntry]
    /\ pluginData' = [f \in Frames |->
                        IF PageOf[f] = currentPage /\ pluginData[f].kind # "empty"
                        THEN EmptyData ELSE pluginData[f]]
    /\ posted' = <<>>
    /\ shared' = StillShared(analysisCache')
    /\ UNCHANGED <<currentPage, remote>>
    /\ UNCHANGED <<now, ticks, doc, selectedFrame, currentIssues, isPaused, req>>

\* msg.type === 'get-cache-info'
GetCacheInfo ==
    /\ IF selectedFrame # None
       THEN LET got == getCachedAnalysis(selectedFrame)
            IN  /\ analysisCache' = got.tier1
                /\ pluginData' = got.tier2
                /\ posted' = << [type |-> "cache-info",
                                 hasCached |-> got.result.kind = "entry",
                                 age |-> IF got.result.kind = "entry"
                                         THEN getCacheAge(got.result.timestamp)
                                         ELSE [count |-> 0, unit |-> "null"]] >>
       ELSE /\ posted' = <<>>
            /\ UNCHANGED <<analysisCache, pluginData>>
    /\ shared' = StillShared(analysisCache')
    /\ UNCHANGED <<currentPage, remote>>
    /\ UNCHANGED <<now, ticks, doc, selectedFrame, currentIssues, isPaused, req>>

\* ------------------------------------------------ msg.type === 'analyze'
\* The handler runs synchronously up to an await on the host (font loading,
\* the pause timer, the AI request), where other handlers can run.  Awaits on
\* promises that are already settled let no other handler in.

\* What a step of the handler reads from outside: msg.showOverlay and msg.useAI
\* (each read once per request, at the step that uses it), and what the host
\* does when asked: frame.setPluginData may throw (storage limit), and so may
\* targetFrame.parent.insertChild in createOverlayFrame (the parent is a
\* component instance); the specifications below that draw no overlay, or only
\* on a top-level frame, fix overlayOk.
HostOutcomes ==
    [showOverlay : BOOLEAN, useAI : BOOLEAN, persistOk : BOOLEAN, overlayOk : {TRUE}]

RECURSIVE DfsNodes(_)
\* The nodes checkNode visits, in order.
DfsNodes(n) ==
    <<n>> \o (IF HasChildren(n)
              THEN Concat([i \in 1..Len(n.children) |-> DfsNodes(n.children[i])])
              ELSE <<>>)

RECURSIVE Advance(_, _, _, _)
\* checkNode from the i-th node on, up to the next await on the host.
Advance(nodes, i, paused, contrast) ==
    IF i > Len(nodes) THEN [kind |-> "end", pos |-> i]
    ELSE IF paused THEN [kind |-> "paused", pos |-> i]
    ELSE IF nodes[i].type = "TEXT" /\ contrast THEN [kind |-> "font", pos |-> i]
    ELSE Advance(nodes, i + 1, paused, contrast)

RECURSIVE WithoutOverlays(_)
\* The subtree n without the nodes named OverlayName.
WithoutOverlays(n) ==
    IF HasChildren(n)
    THEN [n EXCEPT !.children =
            SelectSeq([k \in 1..Len(n.children) |-> WithoutOverlays(n.children[k])],
                      LAMBDA c : c.id # OverlayName)]
    ELSE n
\* clearOverlays(): the tracked overlay and every node of that name are
\* removed (an overlay that lies on the page itself is in no frame's subtree).
clearOverlays(d) == [f \in Frames |-> WithoutOverlays(d[f])]

RECURSIVE InsertOverlay(_, _)
\* targetFrame.parent.insertChild(targetIndex + 1, overlayFrame), where the
\* parent is a node of the subtree n.
InsertOverlay(n, target) ==
    IF ~HasChildren(n) THEN n
    ELSE LET kids == [k \in 1..Len(n.children) |-> InsertOverlay(n.children[k], target)]
             at == {k \in 1..Len(kids) : kids[k].id = target}
         IN  IF at = {} THEN [n EXCEPT !.children = kids]
             ELSE LET k == CHOOSE k \in at : TRUE
                  IN  [n EXCEPT !.children = SubSeq(kids, 1, k) \o <<OverlayFrame(<<>>)>>
                                             \o SubSeq(kids, k + 1, Len(kids))]
\* createOverlayFrame up to its first await.
createOverlayFrame(d, targetFrame) ==
    [f \in Frames |-> InsertOverlay(clearOverlays(d)[f], targetFrame)]

RECURSIVE WithBoxes(_, _)
\* overlayFrame.appendChild(box), overlayFrame.appendChild(label) for each issue.
WithBoxes(n, issues) ==
    IF n.id = OverlayName
    THEN OverlayFrame([i \in 1..Len(issues) |-> issues[i].severity])
    ELSE IF HasChildren(n)
    THEN [n EXCEPT !.children = [k \in 1..Len(n.children) |->
                                    WithBoxes(n.children[k], issues)]]
    ELSE n

\* The handler's part of the next state: everything but the clock, the page,
\* the selection and the pause flag.  d is the document as the handler leaves
\* it (it removes and inserts overlays).
Settle(p, r, issues, msgs, tier1, tier2, sh, d) ==
    /\ req' = [req EXCEPT ![p] = r]
    /\ doc' = d
    /\ currentIssues' = issues
    /\ shared' = sh
    /\ posted' = msgs
    /\ analysisCache' = tier1
    /\ pluginData' = tier2

\* Variant: a tier-2 write that throws undoes the tier-1 write as well.
setCachedAnalysisAllOrNothing(frame, results, tier1, tier2, persistOk, d) ==
    LET cached == CachedAnalysis(now, PLUGIN_VERSION, ContentHashOf[d[frame]], results)
    IN  IF persistOk
        THEN [tier1 |-> [tier1 EXCEPT ![frame] = cached],
              tier2 |-> [tier2 EXCEPT ![frame] = JSONstringify(cached)]]
        ELSE [tier1 |-> tier1, tier2 |-> tier2]

\* setCachedAnalysis(frame, results), as the two tiers it leaves behind.
setCachedAnalysis(frame, results, tier1, tier2, persistOk, d) ==
    LET cached == CachedAnalysis(now, PLUGIN_VERSION, ContentHashOf[d[frame]], results)
    IN  [tier1 |-> [tier1 EXCEPT ![frame] = cached],
         tier2 |-> IF persistOk THEN [tier2 EXCEPT ![frame] = JSONstringify(cached)]
                   ELSE tier2]

\* Variant: the catch block also drops the cache of the analysed frame.
AnalyzeCatchEvicting(p, r, issues, msgs, tier1, tier2, sh, d) ==
    Settle(p, IdleReq, issues, msgs \o <<By(p, r.driverCalls, FailedMessage)>>,
           ClearedTier1(tier1, r.frame), ClearedTier2(tier2, r.frame),
           sh \ {r.frame}, d)

\* catch (error) of the analyze handler: the request ends with an error message.
AnalyzeCatch(p, r, issues, msgs, tier1, tier2, sh, d) ==
    Settle(p, IdleReq, issues, msgs \o <<By(p, r.driverCalls, FailedMessage)>>,
           tier1, tier2, sh, d)

\* Variant: after storing the entry the handler awaits a write-through that
\* rejects, and the rejection reaches the catch block.
FinishFreshAwaitingRemote(p, r, issues, msgs, tier1, tier2, sh, d, h) ==
    IF selectedFrame = None
    THEN AnalyzeCatch(p, r, issues, msgs, tier1, tier2, sh, d)
    ELSE LET stored == setCachedAnalysis(selectedFrame, issues, tier1, tier2, h.persistOk, d)
         IN  AnalyzeCatch(p, r, issues, msgs, stored.tier1, stored.tier2,
                          sh \cup {selectedFrame}, d)

\* From setCachedAnalysis(selectedFrame, currentIssues) to the end of the handler.
FinishFresh(p, r, issues, msgs, tier1, tier2, sh, d, h) ==
    IF selectedFrame = None
    THEN \* generateContentHash(null) throws a TypeError
         AnalyzeCatch(p, r, issues, msgs, tier1, tier2, sh, d)
    ELSE LET stored == setCachedAnalysis(selectedFrame, issues, tier1, tier2, h.persistOk, d)
             done == msgs \o <<By(p, r.driverCalls, FreshMessage(issues))>>
             \* results: results, the array itself
             sharing == {f \in sh \cup {selectedFrame} : stored.tier1[f].kind = "entry"}
         IN  IF issues # <<>> /\ h.showOverlay
             THEN \* createOverlayFrame(selectedFrame, currentIssues): up to its
                  \* first await nothing catches, so a throw reaches the
                  \* handler's catch after 'analysis-complete' has been posted
                  IF h.overlayOk
                  THEN Settle(p, [IdleReq EXCEPT !.pc = "overlay"], issues, done,
                              stored.tier1, stored.tier2, sharing,
                              createOverlayFrame(d, selectedFrame))
                  ELSE AnalyzeCatch(p, r, issues, done, stored.tier1, stored.tier2,
                                    sharing, clearOverlays(d))
             ELSE Settle(p, IdleReq, issues, done, stored.tier1, stored.tier2, sharing, d)

\* After analyzeFrame has returned: if (msg.useAI && msg.apiKey) await enhanceWithAI.
AfterTraversal(p, r, issues, msgs, tier1, tier2, sh, d, h) ==
    IF h.useAI
    THEN Settle(p, [r EXCEPT !.pc = "ai"], issues, msgs, tier1, tier2, sh, d)
    ELSE FinishFresh(p, r, issues, msgs, tier1, tier2, sh, d, h)

\* analyzeFrame from the i-th node on.
Continue(p, r, issues, msgs, tier1, tier2, sh, d, i, paused, contrast, h) ==
    LET a == Advance(DfsNodes(d[r.frame]), i, paused, contrast)
    IN  IF a.kind = "end"
        THEN AfterTraversal(p, r, issues, msgs, tier1, tier2, sh, d, h)
        ELSE Settle(p, [r EXCEPT !.pc = a.kind, !.pos = a.pos], issues, msgs,
                    tier1, tier2, sh, d)

\* The cached branch: if (cached) { ... return; }
ServeCached(p, cached, tier1, tier2, sh, d, h) ==
    LET msgs == <<By(p, 0, CacheHitMessage(cached))>>
        \* currentIssues = cached.results: the array of the entry in tier 1.
        \* (An entry of another frame that holds the same array without being
        \* in sh is taken to hold one of its own: it takes overlapping requests
        \* with overlays to store one array twice and read it back.)
        sharing == IF selectedFrame \in sh THEN sh ELSE {selectedFrame}
    IN  IF cached.results # <<>> /\ h.showOverlay
        THEN IF h.overlayOk
             THEN Settle(p, [IdleReq EXCEPT !.pc = "overlay"],
                         cached.results, msgs, tier1, tier2, sharing,
                         createOverlayFrame(d, selectedFrame))
             ELSE AnalyzeCatch(p, [IdleReq EXCEPT !.frame = selectedFrame],
                               cached.results, msgs, tier1, tier2, sharing,
                               clearOverlays(d))
        ELSE Settle(p, IdleReq, currentIssues, msgs, tier1, tier2, sh, d)

\* The fresh branch, from 'Running fresh analysis' on.
RunFresh(p, force, contrast, tier1, tier2, d, h) ==
    LET r == [pc |-> "idle", frame |-> selectedFrame, force |-> force, pos |-> 1,
              driverCalls |-> 1]
    IN  \* currentIssues = []: a new array, which no entry holds; clearOverlays()
        Continue(p, r, <<>>, <<>>, tier1, tier2, {}, clearOverlays(d), 1, FALSE,
                 contrast, h)

\* An 'analyze' message arrives.
Analyze(p, force, contrast, h) ==
    /\ req[p].pc = "idle"
    /\ \A q \in Reqs : q < p => req[q].pc # "idle"
    /\ isPaused' = FALSE
    /\ UNCHANGED <<currentPage, remote>>
    /\ UNCHANGED <<now, ticks, selectedFrame>>
    /\ IF selectedFrame = None
       THEN Settle(p, IdleReq, currentIssues, <<By(p, 0, NoFrameMessage)>>,
                   analysisCache, pluginData, shared, doc)
       ELSE LET got == IF force
                       THEN [result |-> NoEntry, tier1 |-> analysisCache,
                             tier2 |-> pluginData]
                       ELSE getCachedAnalysis(selectedFrame)
            IN  IF got.result.kind = "entry"
                THEN ServeCached(p, got.result, got.tier1, got.tier2,
                                 StillShared(got.tier1), doc, h)
                ELSE RunFresh(p, force, contrast, got.tier1, got.tier2, doc, h)

\* figma.loadFontAsync settles inside checkTextContrast: with a font, the text
\* node's contrast is judged; with none (the fallback failed too) it is skipped.
FontLoaded(p, fontOk, h) ==
    LET r == req[p]
        node == DfsNodes(doc[r.frame])[r.pos]
    IN  /\ r.pc = "font"
        /\ UNCHANGED <<currentPage, remote>>
        /\ UNCHANGED <<now, ticks, selectedFrame, isPaused>>
        /\ LET issues == IF fontOk THEN currentIssues \o ContrastIssues(node)
                          ELSE currentIssues
           IN  Continue(p, r, issues, <<>>, Pushed(analysisCache, issues), pluginData,
                        shared, doc, r.pos + 1, isPaused, TRUE, h)

\* The pause timer finds isPaused false.
PauseOver(p, h) ==
    LET r == req[p]
    IN  /\ r.pc = "paused"
        /\ ~isPaused
        /\ UNCHANGED <<currentPage, remote>>
        /\ UNCHANGED <<now, ticks, selectedFrame, isPaused>>
        /\ Continue(p, r, currentIssues, <<>>, analysisCache, pluginData, shared, doc,
                    r.pos, FALSE, TRUE, h)

\* A node still to be visited has been removed from the page meanwhile:
\* reading it throws, and analyzeFrame rejects.
AnalyzeFrameThrows(p) ==
    LET r == req[p]
        nodes == DfsNodes(doc[r.frame])
    IN  /\ \/ r.pc = "font" /\ r.pos < Len(nodes)
           \/ r.pc = "paused" /\ ~isPaused
        /\ UNCHANGED <<currentPage, remote>>
        /\ UNCHANGED <<now, ticks, selectedFrame, isPaused>>
        /\ AnalyzeCatch(p, r, currentIssues, <<>>, analysisCache, pluginData, shared,
                        doc)

\* enhanceWithAI returns (it catches its own errors).
AiReturns(p, h) ==
    LET r == req[p]
    IN  /\ r.pc = "ai"
        /\ UNCHANGED <<currentPage, remote>>
        /\ UNCHANGED <<now, ticks, selectedFrame, isPaused>>
        /\ FinishFresh(p, r, currentIssues, <<>>, analysisCache, pluginData, shared,
                       doc, h)

\* The font of the overlay labels settles; a box and a label are drawn for each
\* issue, if the overlay is still there; the handler ends.
OverlayDrawn(p) ==
    /\ req[p].pc = "overlay"
    /\ UNCHANGED <<currentPage, remote>>
    /\ UNCHANGED <<now, ticks, selectedFrame, isPaused>>
    /\ Settle(p, IdleReq, currentIssues, <<>>, analysisCache, pluginData, shared,
              [f \in Frames |-> WithBoxes(doc[f], currentIssues)])

\* ------------------------------------------------ msg.type === 'apply-fix'
\* msg.issueIndex and msg.fix, as the UI sends them.  Of the four kinds of fix
\* the model has textColor and letterSpacing; lineHeight and paragraphSpacing
\* set a property of the text node in the same way.
FixIndexes == {0, 1}
Fixes ==
    [type : {"textColor"}, value : {ColorPlum, ColorBlack}]
    \cup [type : {"letterSpacing"}, value : {FixedSpacing.value}]

RECURSIVE WithFix(_, _, _)
\* The subtree n after the fix has been applied to its node id.
WithFix(n, id, fix) ==
    IF n.id = id
    THEN IF n.type # "TEXT" THEN n
         ELSE IF fix.type = "textColor"
         THEN [n EXCEPT !.fills = <<SolidFill(fix.value)>>]
         ELSE [n EXCEPT !.letterSpacing = [value |-> fix.value, unit |-> "PIXELS"]]
    ELSE IF HasChildren(n)
    THEN [n EXCEPT !.children = [k \in 1..Len(n.children) |->
                                    WithFix(n.children[k], id, fix)]]
    ELSE n

\* figma.getNodeById(id) finds a node.
NodeExists(id) ==
    \E f \in Frames : \E k \in DOMAIN DfsNodes(doc[f]) : DfsNodes(doc[f])[k].id = id

\* applyFix(issueIndex, fix): the document it leaves and what it posts.
\* loadFontAsync is awaited for a font that the traversal has loaded before.
applyFix(issueIndex, fix, fontOk) ==
    IF issueIndex >= Len(currentIssues)
    THEN \* issue is undefined: issue.elementId throws outside the try, the
         \* promise rejects and nothing handles it
         [doc |-> doc, posted |-> <<>>]
    ELSE LET issue == currentIssues[issueIndex + 1]
         IN  IF ~NodeExists(issue.elementId)
             THEN [doc |-> doc,
                   posted |-> << [type |-> "error", message |-> "Element not found"] >>]
             ELSE IF ~fontOk
             THEN [doc |-> doc,
                   posted |-> << [type |-> "error", message |-> "Failed to apply fix"] >>]
             ELSE [doc |-> [f \in Frames |-> WithFix(doc[f], issue.elementId, fix)],
                   posted |-> << [type |-> "fix-applied"] >>]

ApplyFix(issueIndex, fix, fontOk) ==
    LET done == applyFix(issueIndex, fix, fontOk)
    IN  /\ doc' = done.doc
        /\ posted' = done.posted
        /\ UNCHANGED <<currentPage, remote, shared>>
        /\ UNCHANGED <<now, ticks, selectedFrame, analysisCache, pluginData,
                       currentIssues, isPaused, req>>

\* ------------------------------------------------ the database (migration)
\* createSupabaseClient puts the project's anon key into both the apikey and
\* the Authorization header: the requests run as role anon, with no sub.
JwtRole == "anon"
JwtSub == None

\* POLICY "Users can insert own analyses" ... TO authenticated
\*   WITH CHECK (user_id = auth.jwt()->>'sub'); row level security is enabled
\* and no policy names another role.
InsertAllowed(row) == JwtRole = "authenticated" /\ row.user_id = JwtSub
\* POLICY "Users can view own analyses" ... TO authenticated USING (...)
VisibleAnalyses ==
    IF JwtRole = "authenticated"
    THEN {fa \in frame_analyses : fa.user_id = JwtSub}
    ELSE {}
\* POLICY "Users can view own frame changes"
VisibleChanges ==
    IF JwtRole = "authenticated"
    THEN {fc \in frame_changes :
            \E fa \in frame_analyses : fa.user_id = JwtSub /\ fa.frame_id = fc.frame_id}
    ELSE {}

\* gen_random_uuid(): an id no row of the table has.
NewId(rows) ==
    CHOOSE i \in 1..(Cardinality(rows) + 1) : \A r \in rows : r.id # i

\* Variant: ORDER BY analyzed_at ASC.
get_latest_analysis_ascending(p_frame_id, p_user_id) ==
    LET found == {fa \in frame_analyses :
                     fa.frame_id = p_frame_id /\ fa.user_id = p_user_id}
        first == {fa \in found : \A other \in found : other.analyzed_at >= fa.analyzed_at}
    IN  { [id |-> fa.id, frame_id |-> fa.frame_id, content_hash |-> fa.content_hash,
           analyzed_at |-> fa.analyzed_at,
           has_changes |-> \E fc \in frame_changes :
                              fc.frame_id = fa.frame_id /\ fc.is_resolved = FALSE] :
          fa \in first }

\* FUNCTION get_latest_analysis(p_frame_id, p_user_id), SECURITY DEFINER: the
\* rows that ORDER BY analyzed_at DESC LIMIT 1 can return (none, or those of
\* the greatest analyzed_at), each with has_changes.
get_latest_analysis(p_frame_id, p_user_id) ==
    LET found == {fa \in frame_analyses :
                     fa.frame_id = p_frame_id /\ fa.user_id = p_user_id}
        first == {fa \in found : \A other \in found : other.analyzed_at <= fa.analyzed_at}
    IN  { [id |-> fa.id, frame_id |-> fa.frame_id, content_hash |-> fa.content_hash,
           analyzed_at |-> fa.analyzed_at,
           has_changes |-> \E fc \in frame_changes :
                              fc.frame_id = fa.frame_id /\ fc.is_resolved = FALSE] :
          fa \in first }

\* Variant: a row is inserted whether or not the hashes differ.
detect_frame_change_recording(p_frame_id, p_previous_hash, p_current_hash) ==
    [result |-> p_previous_hash # p_current_hash,
     frame_changes |->
        frame_changes \cup
        { [id |-> NewId(frame_changes), frame_id |-> p_frame_id,
           previous_hash |-> p_previous_hash, current_hash |-> p_current_hash,
           is_resolved |-> FALSE] }]

\* FUNCTION detect_frame_change(p_frame_id, p_previous_hash, p_current_hash),
\* SECURITY DEFINER: its result and the table it leaves.
detect_frame_change(p_frame_id, p_previous_hash, p_current_hash) ==
    LET v_has_changed == p_previous_hash # p_current_hash
    IN  [result |-> v_has_changed,
         frame_changes |->
            IF v_has_changed
            THEN frame_changes \cup
                 { [id |-> NewId(frame_changes), frame_id |-> p_frame_id,
                    previous_hash |-> p_previous_hash, current_hash |-> p_current_hash,
                    is_resolved |-> FALSE] }
            ELSE frame_changes]

\* Variant: the UPDATE has no WHERE frame_id = p_frame_id.
resolve_frame_changes_everywhere(p_frame_id) ==
    { [fc EXCEPT !.is_resolved = TRUE] : fc \in frame_changes }

\* FUNCTION resolve_frame_changes(p_frame_id), SECURITY DEFINER: the table it
\* leaves.
resolve_frame_changes(p_frame_id) ==
    { IF fc.frame_id = p_frame_id /\ fc.is_resolved = FALSE
      THEN [fc EXCEPT !.is_resolved = TRUE]
      ELSE fc : fc \in frame_changes }

\* ------------------------------------------- operations of SupabaseClient
\* fetch rejects ("failed"), the response is not OK before the request has
\* reached a table or a function ("not ok"), or the request is carried out.
Nets == {"ok", "not ok", "failed"}

Null == [kind |-> "null"]
Rejected == [kind |-> "error"]

\* Variant: a request that has failed is handed to fetch a second time.
SentRetrying(rs, net) ==
    /\ Len(requests) < MaxCalls
    /\ requests' = IF net = "ok" THEN requests \o rs
                   ELSE requests \o rs \o <<rs[Len(rs)]>>

\* const response = await fetch(url, options): the requests rs of one
\* operation, the last of them with the outcome net, each handed to fetch once.
Sent(rs, net) ==
    /\ Len(requests) < MaxCalls
    /\ requests' = requests \o rs

Returns(op, u, value) ==
    returned' = [op |-> op, by |-> u,
                 outcome |-> IF value = Rejected THEN "rejected" ELSE "resolved",
                 value |-> value]

SaveAnalysis(u, analysis, net) ==
    LET r == saveAnalysis(u, analysis)
        row == [id |-> NewId(frame_analyses), frame_id |-> r.body.frame_id,
                user_id |-> r.body.user_id, content_hash |-> r.body.content_hash,
                analyzed_at |-> now]
    IN  /\ Sent(<<r>>, net)
        /\ IF net = "ok" /\ InsertAllowed(row)
           THEN /\ frame_analyses' = frame_analyses \cup {row}
                /\ Returns("saveAnalysis", u, [kind |-> "rows", rows |-> {row}])
           ELSE \* the insert is refused: the response is not OK
                /\ frame_analyses' = frame_analyses
                /\ Returns("saveAnalysis", u, Rejected)
        /\ UNCHANGED <<frame_changes, plugin>>

GetLatestAnalysis(u, frameId, net) ==
    /\ Sent(<<getLatestAnalysis(u, frameId)>>, net)
    /\ IF net = "ok"
       THEN LET result == get_latest_analysis(frameId, u)
            IN  IF result = {}
                THEN Returns("getLatestAnalysis", u, Null)
                ELSE \E row \in result :
                        Returns("getLatestAnalysis", u, [kind |-> "row", row |-> row])
       ELSE Returns("getLatestAnalysis", u, Rejected)
    /\ UNCHANGED <<frame_analyses, frame_changes, plugin>>

DetectFrameChange(u, frameId, previousHash, currentHash, net) ==
    /\ Sent(<<detectFrameChange(frameId, previousHash, currentHash)>>, net)
    /\ IF net = "ok"
       THEN LET done == detect_frame_change(frameId, previousHash, currentHash)
            IN  /\ frame_changes' = done.frame_changes
                /\ Returns("detectFrameChange", u, [kind |-> "boolean", is |-> done.result])
       ELSE /\ frame_changes' = frame_changes
            /\ Returns("detectFrameChange", u, Rejected)
    /\ UNCHANGED <<frame_analyses, plugin>>

ResolveFrameChanges(u, frameId, net) ==
    /\ Sent(<<resolveFrameChanges(frameId)>>, net)
    /\ IF net = "ok"
       THEN /\ frame_changes' = resolve_frame_changes(frameId)
            /\ Returns("resolveFrameChanges", u, [kind |-> "undefined"])
       ELSE /\ frame_changes' = frame_changes
            /\ Returns("resolveFrameChanges", u, Rejected)
    /\ UNCHANGED <<frame_analyses, plugin>>

\* `/frame_analyses?user_id=eq.${this.userId}&select=frame_id,frame_name`
AnalysesOfUser(userId) ==
    request(IF userId = "figma-user-A"
            THEN "/frame_analyses?user_id=eq.figma-user-A&select=frame_id,frame_name"
            ELSE "/frame_analyses?user_id=eq.figma-user-B&select=frame_id,frame_name",
            "GET", Null)
\* `/frame_changes?is_resolved=eq.false&frame_id=in.(${frameIds.join(',')})`
UnresolvedOfFrames(frameIds) ==
    request(CASE frameIds = {"F1"} -> "/frame_changes?is_resolved=eq.false&frame_id=in.(F1)"
              [] frameIds = {"F2"} -> "/frame_changes?is_resolved=eq.false&frame_id=in.(F2)"
              [] OTHER -> "/frame_changes?is_resolved=eq.false&frame_id=in.(F1,F2)",
            "GET", Null)

\* analyses.map((a: any) => a.frame_id) of the rows the first request returns
FrameIdsOf(userId) == {fa.frame_id : fa \in {a \in VisibleAnalyses : a.user_id = userId}}
\* the rows the second request returns
UnresolvedChangesOf(userId) ==
    {fc \in VisibleChanges : fc.is_resolved = FALSE /\ fc.frame_id \in FrameIdsOf(userId)}

\* net is the outcome of the first request, net2 that of the second.
GetUnresolvedChanges(u, net, net2) ==
    LET frameIds == FrameIdsOf(u)
        changes == UnresolvedChangesOf(u)
    IN  /\ IF net # "ok"
           THEN /\ Sent(<<AnalysesOfUser(u)>>, net)
                /\ Returns("getUnresolvedChanges", u, Rejected)
           ELSE IF frameIds = {}
           THEN \* if (frameIds.length === 0) return []
                /\ Sent(<<AnalysesOfUser(u)>>, net)
                /\ Returns("getUnresolvedChanges", u, [kind |-> "rows", rows |-> {}])
           ELSE /\ Sent(<<AnalysesOfUser(u), UnresolvedOfFrames(frameIds)>>, net2)
                /\ Returns("getUnresolvedChanges", u,
                           IF net2 = "ok" THEN [kind |-> "rows", rows |-> changes]
                           ELSE Rejected)
        /\ UNCHANGED <<frame_analyses, frame_changes, plugin>>

\* ------------------------------------------------------------------- Next
\* One frame, one request at a time (the UI waits for the outcome before it
\* sends the next 'analyze'), while time passes and the user recolours the
\* text, selects and deselects.
Next ==
    \/ \E d \in {CACHE_DURATION, CACHE_DURATION + 1} : Tick(d)
    \/ \E c \in ColorPool : EditColor(c)
    \/ SelectNoFrame
    \/ SelectFrame("F1")
    \/ PauseAnalysis
    \/ ResumeAnalysis
    \/ ClearCache
    \/ ClearAllCaches
    \/ GetCacheInfo
    \/ \E force, contrast \in BOOLEAN, h \in HostOutcomes : Analyze(1, force, contrast, h)
    \/ \E fontOk \in BOOLEAN, h \in HostOutcomes : FontLoaded(1, fontOk, h)
    \/ \E h \in HostOutcomes : PauseOver(1, h)
    \/ AnalyzeFrameThrows(1)
    \/ \E h \in HostOutcomes : AiReturns(1, h)
    \/ OverlayDrawn(1)

Spec == Init /\ [][Next]_vars

\* Two frames and overlapping requests: the UI sends 'analyze' while an
\* earlier request is suspended.  No time passes, nothing was stored before,
\* and the requests ask for no overlay: a cache hit with an overlay assigns
\* the cached issues to currentIssues, a suspended traversal appends to them
\* and stores the longer list, so the stored lists would grow without bound.
InitConcurrent == Started({TextAa}, {ColorSky, ColorBlack}, FALSE) /\ NoHistory

PlainOutcomes ==
    [showOverlay : {FALSE}, useAI : BOOLEAN, persistOk : {TRUE}, overlayOk : {TRUE}]

NextConcurrent ==
    \/ \E pg \in Pages : SwitchPage(pg)
    \/ SelectNoFrame
    \/ \E f \in Frames : SelectFrame(f)
    \/ PauseAnalysis
    \/ ResumeAnalysis
    \/ ClearCache
    \/ \E p \in Reqs, force, contrast \in BOOLEAN, h \in PlainOutcomes :
          Analyze(p, force, contrast, h)
    \/ \E p \in Reqs, fontOk \in BOOLEAN, h \in PlainOutcomes : FontLoaded(p, fontOk, h)
    \/ \E p \in Reqs, h \in PlainOutcomes : PauseOver(p, h)
    \/ \E p \in Reqs : AnalyzeFrameThrows(p)
    \/ \E p \in Reqs, h \in PlainOutcomes : AiReturns(p, h)

SpecConcurrent == InitConcurrent /\ [][NextConcurrent]_vars

\* The overlay: every request asks for one, and the selected frame may sit
\* inside a component instance, where the host refuses insertChild.
InitOverlay == Started({TextAa}, {ColorSky, ColorBlack}, TRUE) /\ NoHistory

OverlayOutcomes ==
    [showOverlay : {TRUE}, useAI : {FALSE}, persistOk : {TRUE}, overlayOk : BOOLEAN]

NextOverlay ==
    \/ \E c \in ColorPool : EditColor(c)
    \/ SelectNoFrame
    \/ SelectFrame("F1")
    \/ PauseAnalysis
    \/ ResumeAnalysis
    \/ ClearCache
    \/ \E force, contrast \in BOOLEAN, h \in OverlayOutcomes : Analyze(1, force, contrast, h)
    \/ \E fontOk \in BOOLEAN, h \in OverlayOutcomes : FontLoaded(1, fontOk, h)
    \/ \E h \in OverlayOutcomes : PauseOver(1, h)
    \/ AnalyzeFrameThrows(1)
    \/ OverlayDrawn(1)

SpecOverlay == InitOverlay /\ [][NextOverlay]_vars

\* Fixes: one frame, one request at a time, with or without an overlay; the
\* user has the frame analysed and applies fixes that the UI offers.
InitFix == Started({TextAa}, {ColorSky}, TRUE) /\ NoHistory

FixOutcomes ==
    [showOverlay : BOOLEAN, useAI : {FALSE}, persistOk : {TRUE}, overlayOk : {TRUE}]

NextFix ==
    \/ SelectNoFrame
    \/ SelectFrame("F1")
    \/ \E force, contrast \in BOOLEAN, h \in FixOutcomes : Analyze(1, force, contrast, h)
    \/ \E fontOk \in BOOLEAN, h \in FixOutcomes : FontLoaded(1, fontOk, h)
    \/ AnalyzeFrameThrows(1)
    \/ OverlayDrawn(1)
    \/ \E i \in FixIndexes, fix \in Fixes, fontOk \in BOOLEAN : ApplyFix(i, fix, fontOk)

SpecFix == InitFix /\ [][NextFix]_vars

\* Nesting: F2 is a child of F1, both are frames the user can select; F1 may
\* carry what an earlier session stored for it.
InitNested ==
    /\ now = 0
    /\ ticks = 0
    /\ doc = [f \in Frames |-> IF f = "F1" THEN Outer(<<>>) ELSE LowContrastFrame2]
    /\ \E d \in StoredBefore(Outer(<<>>)) :
          pluginData = [f \in Frames |-> IF f = "F1" THEN d ELSE EmptyData]
    /\ selectedFrame = None
    /\ analysisCache = [f \in Frames |-> NoEntry]
    /\ currentIssues = <<>>
    /\ shared = {}
    /\ isPaused = FALSE
    /\ req = [p \in Reqs |-> IdleReq]
    /\ posted = <<>>
    /\ currentPage = "Page 1"
    /\ requests = <<>>
    /\ NoHistory

NestedOutcomes ==
    [showOverlay : BOOLEAN, useAI : {FALSE}, persistOk : {TRUE}, overlayOk : {TRUE}]

NextNested ==
    \/ SelectNoFrame
    \/ \E f \in Frames : SelectFrame(f)
    \/ \E force, contrast \in BOOLEAN, h \in NestedOutcomes : Analyze(1, force, contrast, h)
    \/ \E fontOk \in BOOLEAN, h \in NestedOutcomes : FontLoaded(1, fontOk, h)
    \/ OverlayDrawn(1)

SpecNested == InitNested /\ [][NextNested]_vars

\* Progress: requests that overlap, with or without the AI step, plugin data
\* that the host may refuse to write, pause and resume signals, and a
\* selection that comes and goes.
InitLive == Started({TextAa}, {ColorSky}, TRUE) /\ NoHistory

LiveOutcomes ==
    [showOverlay : {FALSE}, useAI : BOOLEAN, persistOk : BOOLEAN, overlayOk : {TRUE}]

NextLive ==
    \/ SelectNoFrame
    \/ SelectFrame("F1")
    \/ PauseAnalysis
    \/ ResumeAnalysis
    \/ \E p \in Reqs, force, contrast \in BOOLEAN, h \in LiveOutcomes :
          Analyze(p, force, contrast, h)
    \/ \E p \in Reqs, fontOk \in BOOLEAN, h \in LiveOutcomes : FontLoaded(p, fontOk, h)
    \/ \E p \in Reqs, h \in LiveOutcomes : PauseOver(p, h)
    \/ \E p \in Reqs : AnalyzeFrameThrows(p)
    \/ \E p \in Reqs, h \in LiveOutcomes : AiReturns(p, h)

\* The host settles what a handler awaits: figma.loadFontAsync and the call of
\* enhanceWithAI return, and the 100 ms poll of a waiting checkNode, which runs
\* for as long as the request waits, comes to run at a time when the flag is
\* down if the flag is down again and again.  The user follows a pause signal
\* by a resume signal.
HostReturns ==
    /\ \A p \in Reqs :
          /\ WF_vars(\E fontOk \in BOOLEAN, h \in LiveOutcomes : FontLoaded(p, fontOk, h))
          /\ SF_vars(\E h \in LiveOutcomes : PauseOver(p, h))
          /\ WF_vars(\E h \in LiveOutcomes : AiReturns(p, h))
    /\ WF_vars(isPaused /\ ResumeAnalysis)

SpecLive == InitLive /\ [][NextLive]_vars /\ HostReturns

\* The fingerprint under edits: any text and colour of the pools to start
\* with, and the user retypes and recolours the text leaf between lookups.
InitHash == Started(TextPool, ColorPool, TRUE) /\ NoHistory

NextHash ==
    \/ \E chars \in TextPool : EditText(chars)
    \/ \E c \in ColorPool : EditColor(c)
    \/ MoveText
    \/ ToggleRect
    \/ SelectFrame("F1")
    \/ GetCacheInfo

SpecHash == InitHash /\ [][NextHash]_vars

\* Two pages with a frame each: the user goes from page to page, selects,
\* has the selected frame analysed (no contrast check, no AI, no overlay: the
\* handler runs to its end without suspension) and clears caches.
InitPages == Started({TextAa}, {ColorBlack}, TRUE) /\ NoHistory

SyncOutcomes ==
    [showOverlay : {FALSE}, useAI : {FALSE}, persistOk : BOOLEAN, overlayOk : {TRUE}]

NextPages ==
    \/ \E pg \in Pages : SwitchPage(pg)
    \/ SelectNoFrame
    \/ \E f \in Frames : SelectFrame(f)
    \/ ClearCache
    \/ ClearAllCaches
    \/ GetCacheInfo
    \/ \E force \in BOOLEAN, h \in SyncOutcomes : Analyze(1, force, FALSE, h)

SpecPages == InitPages /\ [][NextPages]_vars

\* The remote history: clients of two users work on tables that earlier
\* sessions have filled (rows of frame_analyses written by sessions that the
\* policies admit, rows of frame_changes written by detect_frame_change).
HashBlack == ContentHashOf[MkFrame1(TextAa, ColorBlack)]
HashPlum == ContentHashOf[MkFrame1(TextAa, ColorPlum)]
RemoteHashes == {HashBlack, HashPlum}

StoredAnalyses ==
    { [id |-> 1, frame_id |-> "F1", user_id |-> "figma-user-A",
       content_hash |-> HashBlack, analyzed_at |-> -2],
      [id |-> 2, frame_id |-> "F1", user_id |-> "figma-user-A",
       content_hash |-> HashPlum, analyzed_at |-> -1],
      [id |-> 3, frame_id |-> "F1", user_id |-> "figma-user-B",
       content_hash |-> HashBlack, analyzed_at |-> -1] }
StoredChange(id, frame_id) ==
    [id |-> id, frame_id |-> frame_id, previous_hash |-> HashBlack,
     current_hash |-> HashPlum, is_resolved |-> FALSE]

InitRemote ==
    /\ Started({TextAa}, {ColorBlack}, FALSE)
    /\ frame_analyses \in SUBSET StoredAnalyses
    /\ frame_changes \in {{}, {StoredChange(1, "F1")},
                           {StoredChange(1, "F1"), StoredChange(2, "F2")}}
    /\ returned = NothingReturned

NextRemote ==
    \/ \E u, claimed \in Owners, h \in RemoteHashes, net \in Nets :
          SaveAnalysis(u, AnalysisRecord("F1", claimed, h), net)
    \/ \E u \in Owners, f \in Frames, net \in Nets : GetLatestAnalysis(u, f, net)
    \/ \E u \in Owners, f \in Frames, h \in RemoteHashes, net \in Nets :
          DetectFrameChange(u, f, HashBlack, h, net)
    \/ \E u \in Owners, f \in Frames, net \in Nets : ResolveFrameChanges(u, f, net)
    \/ \E u \in Owners, net, net2 \in Nets : GetUnresolvedChanges(u, net, net2)

SpecRemote == InitRemote /\ [][NextRemote]_vars

\* The checks of a fresh analysis, on a frame with one text node of any of
\* the styles: currentIssues = [] and then analyzeFrame(selectedFrame, checks).
StyledTexts ==
    { StyledText("F1.text", c, fontSize, fontWeight, letterSpacing, lineHeight,
                 paragraphSpacing) :
        c \in {ColorGrey, ColorSky, ColorPlum, ColorBlack}, fontSize \in FontSizes,
        fontWeight \in FontWeights, letterSpacing \in LetterSpacings,
        lineHeight \in LineHeights, paragraphSpacing \in ParagraphSpacings }

InitChecks ==
    /\ now = 0
    /\ ticks = 0
    /\ \E textNode \in StyledTexts :
          doc = [f \in Frames |-> IF f = "F1" THEN OneTextFrame(textNode) ELSE MkFrame2]
    /\ pluginData = [f \in Frames |-> EmptyData]
    /\ selectedFrame = "F1"
    /\ analysisCache = [f \in Frames |-> NoEntry]
    /\ currentIssues = <<>>
    /\ shared = {}
    /\ isPaused = FALSE
    /\ req = [p \in Reqs |-> IdleReq]
    /\ posted = <<>>
    /\ currentPage = PageOf["F1"]
    /\ requests = <<>>
    /\ NoHistory

RunChecks(checks, font) ==
    /\ selectedFrame # None
    /\ currentIssues' = analyzeFrame(doc[selectedFrame], checks, font)
    /\ shared' = {}
    /\ UNCHANGED <<now, ticks, doc, selectedFrame, analysisCache, pluginData,
                   isPaused, req, posted, currentPage, remote>>

NextChecks == \E checks \in Checks, font \in Fonts : RunChecks(checks, font)

SpecChecks == InitChecks /\ [][NextChecks]_vars

\* ------------------------------------------------------------- properties
\* The entry a lookup for frame f reads: the one of tier 1, else the one
\* parsed from tier 2, else none.
Consulted(f) ==
    IF analysisCache[f].kind = "entry" THEN analysisCache[f]
    ELSE IF pluginData[f].kind = "json" THEN JSONparse(pluginData[f])
    ELSE NoEntry

\* What a lookup for frame f returns in the current state.
Lookup(f) == getCachedAnalysis(f).result

\* The step ends the fresh path of request 1 otherwise than by a throw of
\* analyzeFrame.
FreshPathEnds ==
    /\ req[1].pc \in {"font", "paused", "ai"}
    /\ req'[1].pc \in {"idle", "overlay"}
    /\ ~AnalyzeFrameThrows(1)

\* C1: whenever 'analyze' without forceReanalyze finds an entry of the selected
\* frame that the lookup accepts, the handler posts exactly one message: the
\* entry's issues, marked fromCache, with the entry's age; no traversal is
\* started (the handler holds no call of the remote client at all).
C1_CacheHitServesEntry ==
    [][ ( /\ selectedFrame # None
          /\ req[1].pc = "idle"
          /\ isPaused' = FALSE
          /\ UNCHANGED <<now, ticks, doc, selectedFrame>>
          /\ Lookup(selectedFrame).kind = "entry"
          /\ \E contrast \in BOOLEAN, h \in HostOutcomes : Analyze(1, FALSE, contrast, h) )
        => LET e == Lookup(selectedFrame)
           IN  /\ Len(posted') = 1
               /\ posted'[1].type = "analysis-complete"
               /\ posted'[1].fromCache = TRUE
               /\ posted'[1].issues = groupIssuesByElement(e.results)
               /\ posted'[1].totalIssues = Len(e.results)
               /\ posted'[1].cacheAge = getCacheAge(e.timestamp)
               /\ posted'[1].driverCalls = 0
               /\ req'[1].driverCalls = 0
               /\ req'[1].pc \in {"idle", "overlay"} ]_vars

\* A cache hit on an entry that is exactly seven days old has been served.
C1_Witness ==
    /\ Len(posted) = 1
    /\ posted[1].type = "analysis-complete"
    /\ posted[1].fromCache = TRUE
    /\ posted[1].cacheAge = [count |-> 7, unit |-> "d ago"]
    /\ now = CACHE_DURATION

\* C2: a request without forceReanalyze that took the fresh path (no entry was
\* found) and whose traversal did not throw ends with one fresh result after
\* exactly one traversal, and the frame it analysed then has an entry that a
\* lookup returns, with the issues just reported and the age 'just now'.
C2_FreshThenServedFromCache ==
    [][ \A n \in Frames :
          (FreshPathEnds /\ ~req[1].force /\ req[1].frame = n)
          => /\ posted' # <<>>
             /\ posted'[Len(posted')].type = "analysis-complete"
             /\ posted'[Len(posted')].fromCache = FALSE
             /\ posted'[Len(posted')].driverCalls = 1
             /\ (Lookup(n).kind)' = "entry"
             /\ (Lookup(n).results)' = currentIssues'
             /\ (getCacheAge(Lookup(n).timestamp).unit)' = "just now" ]_vars

\* C3: an entry is valid exactly when it is at most CACHE_DURATION old, has
\* the plugin's version and has the fingerprint of the frame's content; an
\* entry of another version is never returned by a lookup.
C3_ValidIffAgeVersionFingerprint ==
    \A f \in Frames :
        LET e == Consulted(f)
        IN  e.kind = "entry"
            => /\ isCacheValid(f, e)
                    <=> ( /\ now - e.timestamp <= 7 * 24 * 60 * 60 * 1000
                          /\ e.version = PLUGIN_VERSION
                          /\ e.contentHash = ContentHashOf[doc[f]] )
               /\ (e.version # PLUGIN_VERSION => Lookup(f).kind = "absent")

\* An entry of an earlier version with the frame's fingerprint is consulted
\* when it is exactly seven days old.
C3_Witness ==
    /\ Consulted("F1").kind = "entry"
    /\ Consulted("F1").version = OLD_VERSION
    /\ Consulted("F1").contentHash = ContentHashOf[doc["F1"]]
    /\ now - Consulted("F1").timestamp = CACHE_DURATION

\* C4: a lookup never returns an entry that is CACHE_DURATION + 1 ms old, and
\* returns an entry that is exactly CACHE_DURATION (604800000 ms) old when its
\* version and fingerprint match.
C4_ExpiryBoundary ==
    \A f \in Frames :
        LET e == Consulted(f)
        IN  e.kind = "entry"
            => /\ (now - e.timestamp = 604800000 + 1 => Lookup(f).kind = "absent")
               /\ ( ( /\ now - e.timestamp = 604800000
                      /\ e.version = PLUGIN_VERSION
                      /\ e.contentHash = ContentHashOf[doc[f]] )
                    => Lookup(f) = e )

\* 'get-cache-info' has reported an entry that is exactly CACHE_DURATION old.
C4_Witness ==
    /\ posted = << [type |-> "cache-info", hasCached |-> TRUE,
                    age |-> [count |-> 7, unit |-> "d ago"]] >>
    /\ Consulted("F1").kind = "entry"
    /\ now - Consulted("F1").timestamp = CACHE_DURATION

\* C5: replacing the string of the text leaf of F1 by a different string
\* changes the fingerprint of F1.
C5_TextEditChangesFingerprint ==
    [][ F1Text'.characters # F1Text.characters
        => ContentHashOf[doc'["F1"]] # ContentHashOf[doc["F1"]] ]_vars

\* C6: when F1 has an entry that a lookup returns and the fill colour of its
\* text node changes, the next lookup finds no valid entry (so that 'analyze'
\* without forceReanalyze runs the traversal again).
C6_RecolourInvalidates ==
    [][ (F1Text'.fills # F1Text.fills /\ Lookup("F1").kind = "entry")
        => (Lookup("F1").kind)' = "absent" ]_vars

\* C7: 'clear-cache' leaves the selected frame without an entry in either
\* tier, whatever the entry was, and 'analyze' without forceReanalyze on a
\* frame without an entry in either tier starts a traversal.
C7_ClearCacheForcesTraversal ==
    [][ /\ (selectedFrame # None /\ ClearCache)
           => /\ analysisCache'[selectedFrame] = NoEntry
              /\ pluginData'[selectedFrame] = EmptyData
              /\ (Lookup(selectedFrame).kind)' = "absent"
        /\ ( /\ selectedFrame # None
              /\ req[1].pc = "idle"
              /\ isPaused' = FALSE
              /\ UNCHANGED <<now, ticks, doc, selectedFrame>>
              /\ analysisCache[selectedFrame] = NoEntry
              /\ pluginData[selectedFrame] = EmptyData
              /\ \E contrast \in BOOLEAN, h \in HostOutcomes :
                    Analyze(1, FALSE, contrast, h) )
           => \/ req'[1].driverCalls = 1
              \/ posted' # <<>> /\ posted'[Len(posted')].driverCalls = 1 ]_vars

\* 'clear-cache' has just emptied both tiers of F1 while its text was still
\* as it had been stored.
C7_Witness ==
    /\ posted = << [type |-> "cache-cleared"] >>
    /\ selectedFrame = "F1"
    /\ analysisCache["F1"] = NoEntry
    /\ pluginData["F1"] = EmptyData
    /\ now < CACHE_DURATION

\* C8: when analyzeFrame throws, the request posts 'Analysis failed' after its
\* one traversal and ends, neither tier changes, and an entry that a lookup
\* returned for the analysed frame before the throw is returned after it.
C8_DriverThrowLeavesCache ==
    [][ \A n \in Frames :
          (AnalyzeFrameThrows(1) /\ req[1].frame = n)
          => /\ posted' = << By(1, 1, [type |-> "error", message |-> "Analysis failed"]) >>
             /\ req'[1] = IdleReq
             /\ analysisCache' = analysisCache
             /\ pluginData' = pluginData
             /\ (Lookup(n).kind = "entry" => (Lookup(n))' = Lookup(n)) ]_vars

\* A forced analysis of F1 has failed and F1's entry is still served.
C8_Witness ==
    /\ posted = << By(1, 1, [type |-> "error", message |-> "Analysis failed"]) >>
    /\ selectedFrame = "F1"
    /\ Lookup("F1").kind = "entry"

\* C9: 'Analysis failed' is posted only by a step in which analyzeFrame threw,
\* and the request that posts it has written no cache entry.
C9_OnlyDriverFailuresReported ==
    [][ ( /\ posted' # <<>>
          /\ posted'[Len(posted')].type = "error"
          /\ posted'[Len(posted')].message = "Analysis failed" )
        => /\ AnalyzeFrameThrows(1)
           /\ analysisCache' = analysisCache
           /\ pluginData' = pluginData ]_vars

\* C10: no two requests are inside the traversal of the same frame (awaiting
\* a font, or paused) at the same time.
C10_OneTraversalPerFrame ==
    \A p, q \in Reqs :
        ( /\ p # q
          /\ req[p].pc \in {"font", "paused"}
          /\ req[q].pc \in {"font", "paused"} )
        => req[p].frame # req[q].frame

\* C11: while a traversal is in flight, a pause that is in force is lifted
\* only by 'resume-analysis', and a traversal that waits in the pause poll
\* does not move while the pause is in force.
C11_PausedUntilResumed ==
    [][ /\ ( /\ \E p \in Reqs : req[p].pc \in {"font", "paused"}
             /\ isPaused
             /\ ~isPaused' )
           => ResumeAnalysis
        /\ \A p \in Reqs :
             (req[p].pc = "paused" /\ isPaused) => req'[p] = req[p] ]_vars

\* The step ends the fresh path of request 1 with a fresh result.
FreshSucceeds ==
    /\ FreshPathEnds
    /\ Len(posted') = 1
    /\ posted'[1].type = "analysis-complete"
    /\ posted'[1].fromCache = FALSE

IsSaveOf(r, n) ==
    r.method = "POST" /\ r.path = "/frame_analyses" /\ r.body.frame_id = n

\* C12: a fresh analysis that succeeds writes the entry locally and, only
\* then, hands the analysis of that frame to the remote client; a request to
\* save an analysis of a frame is sent only when the frame's local entry is in
\* place, and a request to resolve a frame's changes only after one to save
\* its analysis.
C12_SetThenWriteThenResolve ==
    [][ \A n \in Frames :
          /\ (FreshSucceeds /\ selectedFrame = n)
                => /\ analysisCache'[n].kind = "entry"
                   /\ Len(requests') > Len(requests)
                   /\ IsSaveOf(requests'[Len(requests) + 1], n)
          /\ \A i \in (Len(requests) + 1)..Len(requests') :
                /\ IsSaveOf(requests'[i], n)
                      => analysisCache'[n].kind = "entry"
                /\ requests'[i] = resolveFrameChanges(n)
                      => \E j \in 1..(i - 1) : IsSaveOf(requests'[j], n) ]_vars

\* C13: when a fresh analysis of a frame succeeds, the record with the frame's
\* current fingerprint is handed to the remote client in that step (the call
\* of saveAnalysis reaches fetch before its first await), and from then on
\* the request that resolves the frame's changes is on its way or sent.
C13_FreshAnalysisRecordedRemotely ==
    [][ \A n \in Frames :
          (FreshSucceeds /\ selectedFrame = n)
             => \E i \in 1..Len(requests') :
                   /\ i > Len(requests)
                   /\ \E u \in Owners :
                         requests'[i] =
                            saveAnalysis(u, AnalysisRecord(n, u, ContentHashOf[doc[n]])) ]_vars

\* C15: selecting a frame asks the remote client for the frame's latest record
\* (the first call of the change check reaches fetch before its first await);
\* whatever becomes of it, the frame is the selected one afterwards and an
\* entry the lookup accepts is announced with its age.
C15_SelectionChecksRemote ==
    [][ \A f \in Frames :
          SelectFrame(f)
             => /\ Len(requests') > Len(requests)
                /\ \E u \in Owners :
                      requests'[Len(requests) + 1] = getLatestAnalysis(u, f)
                /\ selectedFrame' = f
                /\ Lookup(f).kind = "entry"
                      => /\ Len(posted') = 1
                         /\ posted'[1].type = "cache-available" ]_vars

\* The step ends a request 1 with forceReanalyze otherwise than by a throw of
\* analyzeFrame: after a suspension, or in the step the message arrives (it
\* then posts the message of a request that has started its traversal).
ForcedRequestEnds ==
    /\ req'[1].pc \in {"idle", "overlay"}
    /\ \/ /\ req[1].pc \in {"font", "paused", "ai"}
          /\ req[1].force
          /\ ~AnalyzeFrameThrows(1)
       \/ /\ req[1].pc = "idle"
          /\ isPaused' = FALSE
          /\ UNCHANGED <<now, ticks, doc, selectedFrame>>
          /\ posted' # <<>>
          /\ "driverCalls" \in DOMAIN posted'[1]
          /\ posted'[1].driverCalls = 1
          /\ \E contrast \in BOOLEAN, h \in HostOutcomes : Analyze(1, TRUE, contrast, h)

\* C14: the handler reaches no remote client (none is constructed), and a
\* request with forceReanalyze on a frame that is still selected when its
\* traversal is over sends nothing, ends with one fresh result and no error,
\* and leaves an entry that a lookup of the frame returns, holding the issues
\* just reported (also when the tier-2 write failed).
C14_RemoteAbsenceHarmless ==
    [][ \A n \in Frames :
          (selectedFrame = n /\ ForcedRequestEnds)
             => /\ requests' = requests
                /\ Len(posted') = 1
                /\ posted'[1].type = "analysis-complete"
                /\ posted'[1].fromCache = FALSE
                /\ (Lookup(n))'.kind = "entry"
                /\ (Lookup(n))'.timestamp = now
                /\ posted'[1].issues = groupIssuesByElement((Lookup(n))'.results)
                /\ posted'[1].totalIssues = Len((Lookup(n))'.results) ]_vars

\* A fresh result with an issue has been reported while no request was ever
\* sent and the tier-2 write had failed: the entry is served from tier 1.
C14_Witness ==
    /\ requests = <<>>
    /\ Len(posted) = 1
    /\ posted[1].type = "analysis-complete"
    /\ posted[1].fromCache = FALSE
    /\ posted[1].totalIssues > 0
    /\ Lookup("F1").kind = "entry"
    /\ Lookup("F1").timestamp = now
    /\ now > 0
    /\ pluginData["F1"] # JSONstringify(Lookup("F1"))

\* C16: when generateContentHash throws at the end of a traversal (the frame
\* it is given is null: the selection was dropped meanwhile), the request
\* still ends with a fresh result and no error; and every fresh result comes
\* with an entry stored at that moment, with some fingerprint.
C16_FingerprintFailureRecovered ==
    [][ FreshPathEnds
          => /\ selectedFrame = None
                => /\ posted' # <<>>
                   /\ \A i \in 1..Len(posted') : posted'[i].type # "error"
                   /\ posted'[Len(posted')].type = "analysis-complete"
             /\ FreshSucceeds
                => \E n \in Frames :
                      /\ analysisCache'[n].kind = "entry"
                      /\ analysisCache'[n].timestamp = now
                      /\ analysisCache'[n].contentHash = ContentHashOf[doc[n]] ]_vars

\* C17: a change of the document that keeps the frame's child count, its
\* text strings and its text fill colours (a move of the text leaf, or no
\* change at all) keeps the frame's fingerprint, and an entry that a lookup
\* returned before is still returned afterwards.
C17_FingerprintIgnoresLayout ==
    [][ ( /\ Len(doc'["F1"].children) = Len(doc["F1"].children)
          /\ collectTextContent(doc'["F1"]) = collectTextContent(doc["F1"])
          /\ collectColors(doc'["F1"]) = collectColors(doc["F1"]) )
        => /\ ContentHashOf[doc'["F1"]] = ContentHashOf[doc["F1"]]
           /\ Lookup("F1").kind = "entry" => (Lookup("F1"))' = Lookup("F1") ]_vars

\* After the text leaf was moved, the entry stored before is reported as
\* cached.
C17_Witness ==
    /\ F1Text.x = 1
    /\ Len(posted) = 1
    /\ posted[1].type = "cache-info"
    /\ posted[1].hasCached = TRUE

\* The number of nodes below n, at any depth.
Descendants(n) == Len(DfsNodes(n)) - 1

\* C18: whenever the number of descendants of the frame changes, at whatever
\* depth, the summary that is hashed changes.
C18_CountsAllDescendants ==
    [][ Descendants(doc'["F1"]) # Descendants(doc["F1"])
          => fingerprint(doc'["F1"]) # fingerprint(doc["F1"]) ]_vars

\* C19: after 'clear-all-caches' tier 1 is empty, no frame of the document
\* holds plugin data, and a lookup finds nothing for any frame.
C19_ClearAllLeavesNothing ==
    [][ ClearAllCaches
          => \A f \in Frames :
                /\ analysisCache'[f].kind = "absent"
                /\ pluginData'[f].kind = "empty"
                /\ (Lookup(f))'.kind = "absent" ]_vars

\* C20: a step that reports a fresh result has stored, for the selected
\* frame, an entry with the time of the step, the plugin's version, the
\* frame's fingerprint and the issues reported; tier 1 holds it, tier 2 holds
\* its JSON text or, when the write threw, what it held before the write
\* (what the step began with, or nothing when the handler's lookup had evicted
\* it); no error is reported, and a lookup of the frame returns the entry.
C20_SetWritesBothTiers ==
    [][ ( /\ posted' # <<>>
          /\ posted'[Len(posted')].type = "analysis-complete"
          /\ posted'[Len(posted')].fromCache = FALSE )
        => \A n \in Frames :
              selectedFrame' = n
                 => LET cached == CachedAnalysis(now', PLUGIN_VERSION,
                                                 ContentHashOf[doc'[n]], currentIssues')
                    IN  /\ Len(posted') = 1
                        /\ analysisCache'[n] = cached
                        /\ pluginData'[n] \in
                              {JSONstringify(cached), pluginData[n], EmptyData}
                        /\ (Lookup(n))' = cached ]_vars

\* A fresh result has been reported for a frame whose plugin data is empty:
\* the tier-2 write threw, and tier 1 alone holds the entry that is served.
C20_Witness ==
    /\ selectedFrame = "F1"
    /\ posted # <<>>
    /\ posted[Len(posted)].type = "analysis-complete"
    /\ posted[Len(posted)].fromCache = FALSE
    /\ pluginData["F1"] = EmptyData
    /\ analysisCache["F1"] =
          CachedAnalysis(now, PLUGIN_VERSION, ContentHashOf[doc["F1"]], currentIssues)
    /\ Lookup("F1") = analysisCache["F1"]

\* The step is a lookup of frame f by the selection handler or by
\* 'get-cache-info' while tier 1 has no entry of f and the plugin data of f
\* is text that JSON.parse rejects.
LooksUpCorrupt(f) ==
    /\ analysisCache[f].kind = "absent"
    /\ pluginData[f] = CorruptData
    /\ \/ SelectFrame(f)
       \/ selectedFrame = f /\ GetCacheInfo

\* What such a lookup tells the UI: no cache, and no error.
ReportsAbsent ==
    \/ posted' = <<>>
    \/ /\ Len(posted') = 1
       /\ posted'[1].type = "cache-info"
       /\ posted'[1].hasCached = FALSE

\* C21, as claimed: a lookup that meets unparsable plugin data reports no
\* cache, throws nothing, leaves tier 1 without an entry of the frame and
\* empties the frame's plugin data.
C21_CorruptDataEvicted ==
    [][ \A f \in Frames :
          LooksUpCorrupt(f)
             => /\ ReportsAbsent
                /\ selectedFrame' = f
                /\ analysisCache'[f].kind = "absent"
                /\ pluginData'[f] = EmptyData ]_vars

\* C21, amended: a lookup that meets unparsable plugin data reports no
\* cache, throws nothing, leaves tier 1 without an entry of the frame and
\* leaves the plugin data as it is (the next lookup fails to parse it again).
C21_CorruptDataIgnored ==
    [][ \A f \in Frames :
          LooksUpCorrupt(f)
             => /\ ReportsAbsent
                /\ selectedFrame' = f
                /\ analysisCache'[f].kind = "absent"
                /\ pluginData'[f] = CorruptData ]_vars

\* 'get-cache-info' has reported no cache for a frame whose plugin data is
\* unparsable, and the data is still there.
C21_Witness ==
    /\ selectedFrame = "F1"
    /\ pluginData["F1"] = CorruptData
    /\ analysisCache["F1"].kind = "absent"
    /\ Len(posted) = 1
    /\ posted[1].type = "cache-info"
    /\ posted[1].hasCached = FALSE

\* C22: a detectFrameChange that the server carries out returns true and adds
\* exactly one row to frame_changes, unresolved and of the frame, when the two
\* hashes differ; it returns false and adds nothing when they are equal; the
\* rows that were there stay as they were.
C22_DetectChange ==
    [][ \A u \in Owners, f \in Frames, previous, current \in RemoteHashes :
          DetectFrameChange(u, f, previous, current, "ok")
             => /\ frame_changes \subseteq frame_changes'
                /\ IF previous # current
                   THEN /\ returned'.value = [kind |-> "boolean", is |-> TRUE]
                        /\ Cardinality(frame_changes' \ frame_changes) = 1
                        /\ \A fc \in frame_changes' \ frame_changes :
                              /\ fc.frame_id = f
                              /\ fc.is_resolved = FALSE
                              /\ fc.previous_hash = previous
                              /\ fc.current_hash = current
                   ELSE /\ returned'.value = [kind |-> "boolean", is |-> FALSE]
                        /\ frame_changes' = frame_changes ]_vars

\* A change of F2 has been detected and recorded next to the two stored rows.
C22_Witness ==
    /\ returned.op = "detectFrameChange"
    /\ returned.value = [kind |-> "boolean", is |-> TRUE]
    /\ Cardinality(frame_changes) = 3
    /\ Cardinality({fc \in frame_changes : fc.frame_id = "F2"}) = 2

\* C23: a resolveFrameChanges that the server carries out leaves no
\* unresolved row of the frame, changes of the frame's rows nothing but
\* is_resolved, leaves the rows of every other frame as they were, changes
\* nothing when no row of the frame was unresolved, and a second call after it
\* would change nothing.
C23_ResolveChanges ==
    [][ \A u \in Owners, f \in Frames :
          ResolveFrameChanges(u, f, "ok")
             => /\ \A fc \in frame_changes' :
                      fc.frame_id = f => fc.is_resolved = TRUE
                /\ {fc \in frame_changes' : fc.frame_id = f}
                      = {[fc EXCEPT !.is_resolved = TRUE] :
                            fc \in {c \in frame_changes : c.frame_id = f}}
                /\ {fc \in frame_changes' : fc.frame_id # f}
                      = {fc \in frame_changes : fc.frame_id # f}
                /\ (\A fc \in frame_changes :
                       fc.frame_id = f => fc.is_resolved = TRUE)
                      => frame_changes' = frame_changes
                /\ resolve_frame_changes(f)' = frame_changes' ]_vars

\* The change of F1 has been resolved and that of F2 is still unresolved.
C23_Witness ==
    /\ returned.op = "resolveFrameChanges"
    /\ returned.outcome = "resolved"
    /\ \E fc \in frame_changes : fc.frame_id = "F1" /\ fc.is_resolved = TRUE
    /\ \E fc \in frame_changes : fc.frame_id = "F2" /\ fc.is_resolved = FALSE

\* C24: a getLatestAnalysis that the server carries out returns null when
\* frame_analyses has no row of the client's user for the frame; otherwise it
\* returns a row of that user and frame with the greatest analyzed_at, and
\* has_changes is true exactly when frame_changes has an unresolved row of the
\* frame.
C24_ReadLatest ==
    [][ \A u \in Owners, f \in Frames :
          GetLatestAnalysis(u, f, "ok")
             => LET mine == {fa \in frame_analyses :
                                fa.user_id = u /\ fa.frame_id = f}
                IN  IF mine = {}
                    THEN returned'.value = Null
                    ELSE /\ returned'.value.kind = "row"
                         /\ \E fa \in mine :
                               /\ \A other \in mine : other.analyzed_at <= fa.analyzed_at
                               /\ returned'.value.row.id = fa.id
                               /\ returned'.value.row.frame_id = f
                               /\ returned'.value.row.content_hash = fa.content_hash
                               /\ returned'.value.row.analyzed_at = fa.analyzed_at
                         /\ returned'.value.row.has_changes
                               = (\E fc \in frame_changes :
                                     fc.frame_id = f /\ fc.is_resolved = FALSE) ]_vars

\* User A has two rows of F1; the later one has been returned, with the
\* frame's unresolved change.
C24_Witness ==
    /\ Cardinality({fa \in frame_analyses :
                       fa.user_id = "figma-user-A" /\ fa.frame_id = "F1"}) = 2
    /\ returned.op = "getLatestAnalysis"
    /\ returned.by = "figma-user-A"
    /\ returned.value.kind = "row"
    /\ returned.value.row.content_hash = HashPlum
    /\ returned.value.row.analyzed_at = -1
    /\ returned.value.row.has_changes = TRUE

\* An operation of the client of user a.
OperationOf(a) ==
    \/ \E claimed \in Owners, h \in RemoteHashes, net \in Nets :
          SaveAnalysis(a, AnalysisRecord("F1", claimed, h), net)
    \/ \E f \in Frames, net \in Nets : GetLatestAnalysis(a, f, net)
    \/ \E f \in Frames, h \in RemoteHashes, net \in Nets :
          DetectFrameChange(a, f, HashBlack, h, net)
    \/ \E f \in Frames, net \in Nets : ResolveFrameChanges(a, f, net)
    \/ \E net, net2 \in Nets : GetUnresolvedChanges(a, net, net2)

\* C25: no operation of one user's client changes what a read of another
\* user's client returns: neither the row and has_changes that
\* getLatestAnalysis returns for any frame, nor the rows that
\* getUnresolvedChanges returns.
C25_NoCrossOwnerEffect ==
    [][ \A a, b \in Owners :
          a # b /\ OperationOf(a)
             => /\ \A n \in Frames :
                      get_latest_analysis(n, b)' = get_latest_analysis(n, b)
                /\ UnresolvedChangesOf(b)' = UnresolvedChangesOf(b) ]_vars

SentOnce(rs, net) ==
    /\ requests' = requests \o rs
    /\ net # "ok" => returned'.outcome = "rejected" /\ returned'.value = Rejected

\* C27: every operation of the client hands each of its requests to fetch
\* exactly once; when fetch fails or the response is not OK the operation
\* rejects with an error and the request is not sent again.
C27_NoRetry ==
    [][ \A u \in Owners, net \in Nets :
          returned'.by = u
             => /\ \A claimed \in Owners, h \in RemoteHashes :
                      returned'.op = "saveAnalysis"
                         /\ SaveAnalysis(u, AnalysisRecord("F1", claimed, h), net)
                         => SentOnce(<<saveAnalysis(u, AnalysisRecord("F1", claimed, h))>>, net)
                /\ \A f \in Frames :
                      /\ returned'.op = "getLatestAnalysis" /\ GetLatestAnalysis(u, f, net)
                            => SentOnce(<<getLatestAnalysis(u, f)>>, net)
                      /\ returned'.op = "resolveFrameChanges" /\ ResolveFrameChanges(u, f, net)
                            => SentOnce(<<resolveFrameChanges(f)>>, net)
                      /\ \A h \in RemoteHashes :
                            returned'.op = "detectFrameChange"
                               /\ DetectFrameChange(u, f, HashBlack, h, net)
                               => SentOnce(<<detectFrameChange(f, HashBlack, h)>>, net)
                /\ \A net2 \in Nets :
                      returned'.op = "getUnresolvedChanges"
                         /\ GetUnresolvedChanges(u, net, net2)
                         => \/ SentOnce(<<AnalysesOfUser(u)>>, net)
                            \/ /\ net = "ok"
                               /\ SentOnce(<<AnalysesOfUser(u),
                                             UnresolvedOfFrames(FrameIdsOf(u))>>, net2) ]_vars

\* detectFrameChange has sent its one request, fetch has failed or the answer
\* was not OK, and the operation has rejected.
C27_Witness ==
    /\ Len(requests) = 1
    /\ requests[1].path = "/rpc/detect_frame_change"
    /\ returned.op = "detectFrameChange"
    /\ returned.outcome = "rejected"
    /\ frame_changes = {}

\* The frame of C28: its one text node has contrast ratio 3.00 against a
\* required ratio of 4.5.
LowContrastText ==
    LET textNode == doc["F1"].children[1]
    IN  /\ Len(doc["F1"].children) = 1
        /\ textNode.type = "TEXT"
        /\ ContrastRatio100(textNode.fills[1].color) = 300
        /\ aaRequired(textNode) = 450

\* C28, as claimed: the analysis of a frame whose only content is one text
\* node with contrast ratio 3.0 against a required ratio of 4.5 yields exactly
\* one issue, of severity fail and level AA.
C28_ExactlyOneIssue ==
    [][ \A checks \in Checks, font \in Fonts :
          LowContrastText /\ RunChecks(checks, font)
             => /\ Len(currentIssues') = 1
                /\ currentIssues'[1].severity = "fail"
                /\ currentIssues'[1].wcagLevel = "AA" ]_vars

\* C28, amended: when the colour contrast check is enabled and a font loads,
\* the analysis of such a frame yields exactly one Color Contrast issue, of
\* severity fail and level AA; every other issue comes from another enabled
\* text check, and there is none when those checks are disabled or the node
\* passes them (letter spacing of 0.12 em, line height of 1.5 em or automatic,
\* paragraph spacing of 2 em).
C28_OneContrastIssue ==
    [][ \A checks \in Checks, font \in Fonts :
          LowContrastText /\ RunChecks(checks, font)
                /\ checks.colorContrast /\ font \in {"loaded", "fallback"}
             => LET textNode == doc["F1"].children[1]
                    contrast == SelectSeq(currentIssues',
                                          LAMBDA i : i.issueType = "Color Contrast")
                    others == SelectSeq(currentIssues',
                                        LAMBDA i : i.issueType # "Color Contrast")
                IN  /\ Len(contrast) = 1
                    /\ contrast[1].severity = "fail"
                    /\ contrast[1].wcagLevel = "AA"
                    /\ contrast[1].elementId = textNode.id
                    /\ \A k \in 1..Len(others) :
                          \/ checks.textSpacing /\ others[k].issueType = "Text Spacing"
                          \/ checks.lineHeight /\ others[k].issueType = "Line Height"
                          \/ checks.paragraphSpacing
                                /\ others[k].issueType = "Paragraph Spacing"
                    /\ ~(checks.textSpacing \/ checks.lineHeight \/ checks.paragraphSpacing)
                          => Len(currentIssues') = 1
                    /\ ( /\ textNode.letterSpacing = [unit |-> "PIXELS", value |-> 3]
                         /\ textNode.lineHeight \in {[unit |-> "AUTO"],
                                                      [unit |-> "PIXELS", value |-> 30]}
                         /\ textNode.paragraphSpacing = 40 )
                          => Len(currentIssues') = 1 ]_vars

\* The low-contrast text node has been analysed with every check enabled: it
\* passes the spacing checks, and the one issue is that of its contrast.
C28_Witness ==
    /\ LowContrastText
    /\ doc["F1"].children[1].letterSpacing = [unit |-> "PIXELS", value |-> 3]
    /\ doc["F1"].children[1].paragraphSpacing = 40
    /\ Len(currentIssues) = 1
    /\ currentIssues[1].issueType = "Color Contrast"
    /\ currentIssues[1].severity = "fail"
    /\ currentIssues[1].wcagLevel = "AA"

\* A lookup of frame f by the selection handler or by 'get-cache-info'.
LookupStep(f) ==
    \/ SelectFrame(f)
    \/ selectedFrame = f /\ GetCacheInfo

\* What the caller of the lookup tells the UI when it got the entry e.
ToldFound(e) ==
    /\ Len(posted') = 1
    /\ \/ posted'[1].type = "cache-available"
       \/ posted'[1].type = "cache-info" /\ posted'[1].hasCached = TRUE
    /\ posted'[1].age = getCacheAge(e.timestamp)
\* What it tells when it got null.
ToldAbsent ==
    \/ posted' = <<>>
    \/ /\ Len(posted') = 1
       /\ posted'[1].type = "cache-info"
       /\ posted'[1].hasCached = FALSE

\* Tier 1 holds an entry of F1 that fails validation while the plugin data of
\* F1 holds one that would pass.
StaleOverFresh ==
    /\ analysisCache["F1"].kind = "entry"
    /\ ~isCacheValid("F1", analysisCache["F1"])
    /\ pluginData["F1"].kind = "json"
    /\ isCacheValid("F1", JSONparse(pluginData["F1"]))

\* C29: when tier 1 holds an entry of the frame, the lookup decides on that
\* entry alone, whatever the plugin data holds: a valid one is returned and
\* the plugin data is not touched, an invalid one is discarded and null is
\* returned, even if the plugin data holds an entry that would validate.  When
\* tier 1 holds none and the plugin data parses, the parsed entry is put into
\* tier 1 and decided on: a valid one stays there and is returned.
C29_TierOneFirst ==
    [][ \A f \in Frames :
          LookupStep(f)
             => LET inMemory == analysisCache[f]
                    data == pluginData[f]
                IN  /\ inMemory.kind = "entry" /\ isCacheValid(f, inMemory)
                          => /\ ToldFound(inMemory)
                             /\ analysisCache'[f] = inMemory
                             /\ pluginData' = pluginData
                    /\ inMemory.kind = "entry" /\ ~isCacheValid(f, inMemory)
                          => /\ ToldAbsent
                             /\ analysisCache'[f] = NoEntry
                    /\ inMemory.kind = "absent" /\ data.kind = "json"
                          => IF isCacheValid(f, JSONparse(data))
                             THEN /\ ToldFound(JSONparse(data))
                                  /\ analysisCache'[f] = JSONparse(data)
                             ELSE /\ ToldAbsent
                                  /\ analysisCache'[f] = NoEntry ]_vars

\* F1 is selected while tier 1 holds an entry of an earlier content of F1 and
\* the plugin data still holds the valid entry of its present content: the
\* lookups of 'get-cache-info' and of the next selection of F1 meet the case.
C29_Witness ==
    /\ StaleOverFresh
    /\ selectedFrame = "F1"
    /\ \A p \in Reqs : req[p].pc = "idle"

\* A lookup of frame f by any of its callers: the selection handler,
\* 'get-cache-info', or 'analyze' without forceReanalyze.
CallerLooksUp(f) ==
    \/ LookupStep(f)
    \/ /\ selectedFrame = f
       /\ req[1].pc = "idle"
       /\ isPaused' = FALSE
       /\ UNCHANGED <<now, ticks, doc, selectedFrame>>
       /\ \E contrast \in BOOLEAN, h \in HostOutcomes : Analyze(1, FALSE, contrast, h)

\* After the step neither tier holds the entry e of frame f; both tiers are
\* empty for f unless the 'analyze' that looked it up has already stored the
\* result of its fresh analysis.
Evicted(f, e) ==
    /\ analysisCache'[f] # e
    /\ pluginData'[f] # JSONstringify(e)
    /\ \/ analysisCache'[f] = NoEntry /\ pluginData'[f] = EmptyData
       \/ /\ req[1].pc = "idle"
          /\ req'[1].pc \in {"idle", "overlay"}
          /\ posted' # <<>>
          /\ posted'[Len(posted')].type = "analysis-complete"
          /\ posted'[Len(posted')].fromCache = FALSE

\* C30, as claimed: a lookup that finds an invalid entry removes it from both
\* tiers, and a lookup that finds a valid entry leaves both tiers exactly as
\* they were, whichever caller looks up.
C30_ReadsLeaveTiers ==
    [][ \A f \in Frames :
          Consulted(f).kind = "entry" /\ CallerLooksUp(f)
             => IF isCacheValid(f, Consulted(f))
                THEN analysisCache' = analysisCache /\ pluginData' = pluginData
                ELSE Evicted(f, Consulted(f)) ]_vars

\* C30, amended: a lookup that finds an invalid entry removes it from both
\* tiers; a lookup that finds a valid entry leaves the plugin data exactly as
\* it was and tier 1 holding that entry, timestamp included: tier 1 is as it
\* was, or has received the entry read from the plugin data; whichever caller
\* looks up.
C30_ReadsKeepEntry ==
    [][ \A f \in Frames :
          Consulted(f).kind = "entry" /\ CallerLooksUp(f)
             => IF isCacheValid(f, Consulted(f))
                THEN /\ analysisCache' = [analysisCache EXCEPT ![f] = Consulted(f)]
                     /\ pluginData' = pluginData
                ELSE Evicted(f, Consulted(f)) ]_vars

\* The selection of F1 has found the stored entry when it was exactly seven
\* days old: tier 1 has received it with the timestamp it was stored with.
C30_Witness ==
    /\ selectedFrame = "F1"
    /\ Len(posted) = 1
    /\ posted[1].type = "cache-available"
    /\ posted[1].age = [count |-> 7, unit |-> "d ago"]
    /\ analysisCache["F1"].kind = "entry"
    /\ pluginData["F1"] = JSONstringify(analysisCache["F1"])
    /\ analysisCache["F1"].timestamp = 0
    /\ now = CACHE_DURATION

\* C31: an 'analyze' with forceReanalyze on a selected frame starts a
\* traversal whatever the cache holds; and when such a request ends with a
\* fresh result, tier 1 holds for the frame it traversed the entry made at that
\* moment (timestamp now, the frame's current fingerprint, the issues just
\* found), and the plugin data of that frame holds the same entry (or, when
\* the write to the plugin data threw, what it held before).
C31_ForcedOverwrites ==
    [][ \A p \in Reqs, n \in Frames :
          /\ ( /\ req[p].pc = "idle"
               /\ selectedFrame = n
               /\ isPaused' = FALSE
               /\ UNCHANGED <<now, ticks, doc, selectedFrame>>
               /\ \E contrast \in BOOLEAN, h \in HostOutcomes : Analyze(p, TRUE, contrast, h) )
                => \/ req'[p].driverCalls = 1
                   \/ posted' # <<>> /\ posted'[Len(posted')].driverCalls = 1
          /\ ( /\ req[p].pc \in {"font", "paused", "ai"}
               /\ req[p].force
               /\ req[p].frame = n
               /\ req'[p].pc \in {"idle", "overlay"}
               /\ posted' # <<>>
               /\ posted'[Len(posted')].type = "analysis-complete"
               /\ posted'[Len(posted')].by = p )
                => LET cached == CachedAnalysis(now, PLUGIN_VERSION,
                                                ContentHashOf[doc[n]], currentIssues')
                   IN  /\ analysisCache'[n] = cached
                       /\ pluginData'[n] \in {JSONstringify(cached), pluginData[n]} ]_vars

\* The terminal messages ('analysis-complete' or 'error') among msgs that the
\* handler invocation p posted.
TerminalOutcomes(msgs, p) ==
    {i \in DOMAIN msgs : msgs[i].type \in {"analysis-complete", "error"} /\ msgs[i].by = p}

\* C32: an 'analyze' request posts exactly one terminal message: no step of
\* the handler posts both an 'analysis-complete' and an 'error' for the same
\* request, a step that ends the traversal or serves the cache posts one, and
\* nothing more is posted for the request while its overlay is drawn.
C32_OneTerminalOutcome ==
    [][ \A p \in Reqs :
          LET n == Cardinality(TerminalOutcomes(posted', p))
          IN  /\ n <= 1
              /\ ( /\ req[p].pc \in {"idle", "font", "paused", "ai"}
                   /\ req'[p].pc \in {"idle", "overlay"}
                   /\ req'[p] # req[p] ) => n = 1
              /\ req[p].pc = "overlay" => n = 0 ]_vars

\* 31 * h + ch on the 16-bit halves, reduced to 32 bits.
Times31Plus(h, ch) ==
    LET lo == h[2] * 31 + ch
    IN  Int32Of(h[1] * 31 + lo \div Half, lo)

RECURSIVE Fold31(_, _, _)
\* h := 31 * h + charCode(c) over the code units of str from the i-th on.
Fold31(h, str, i) ==
    IF i > Len(str) THEN h
    ELSE LET next == Times31Plus(h, str[i])
         IN  IF IsInt32(next) THEN Fold31(next, str, i + 1) ELSE next

\* The magnitude of a 32-bit two's complement integer: 2^32 - h when the sign
\* bit is set.
Magnitude(h) ==
    IF h[1] < Half \div 2 THEN h
    ELSE LET lo == (Half - h[2]) % Half
         IN  <<Half - h[1] - (IF h[2] = 0 THEN 0 ELSE 1), lo>>

Base36Value(u) == IF u \in 48..57 THEN u - 48 ELSE IF u \in 97..122 THEN u - 87 ELSE 36

RECURSIVE Parse36(_, _, _)
\* The number that the base-36 digits of str from the i-th on continue from v,
\* as <<hi, lo>>; hi is not reduced, so that a value of 2^32 or more shows.
Parse36(v, str, i) ==
    IF i > Len(str) THEN v
    ELSE LET lo == v[2] * 36 + Base36Value(str[i])
             next == <<v[1] * 36 + lo \div Half, lo % Half>>
         IN  IF next[1] >= 0 THEN Parse36(next, str, i + 1) ELSE next

\* C33: the hash of every frame's fingerprint is a string of base-36 digits
\* (no sign, no leading zero) whose value is |h|, h being the fold
\* h := 31 * h + charCode(c) from 0 over the fingerprint's code units, reduced
\* to a signed 32-bit integer in each round; the value lies in 0..2^31.
C33_HashIsFold31 ==
    \A f \in Frames :
        LET str == fingerprint(doc[f])
            hash == generateContentHash(doc[f])
            value == Parse36(<<0, 0>>, hash, 1)
        IN  /\ hash # <<>>
            /\ \A i \in DOMAIN hash : Base36Value(hash[i]) < 36
            /\ Len(hash) > 1 => hash[1] # 48
            /\ value = Magnitude(Fold31(<<0, 0>>, str, 1))
            /\ \/ value[1] < Half \div 2
               \/ value = <<Half \div 2, 0>>

\* A lookup has compared the hash of a fingerprint whose fold is negative
\* (Math.abs changes it) with the stored one.
C33_Witness ==
    /\ selectedFrame = "F1"
    /\ posted # <<>> /\ posted[1].type = "cache-info"
    /\ HashFold(<<0, 0>>, fingerprint(doc["F1"]), 1)[1] >= Half \div 2
    /\ Len(fingerprint(doc["F1"])) > 6

\* The ids of the nodes of frame n's subtree.
SubtreeIds(n) == {DfsNodes(doc[n])[k].id : k \in DOMAIN DfsNodes(doc[n])}

\* C34: when a request that traversed frame n ends with a fresh result, the
\* only tier-1 and tier-2 slots the step changes are those of n, and the entry
\* it leaves in tier 1 for n has the fingerprint of n and holds issues of
\* nodes of n's subtree only, wherever the selection is by then.
C34_StoredUnderTraversed ==
    [][ \A p \in Reqs, n \in Frames :
          ( /\ req[p].pc \in {"font", "paused", "ai"} /\ req[p].frame = n
            /\ req'[p].pc = "idle" /\ posted' # <<>>
            /\ posted'[Len(posted')].type = "analysis-complete"
            /\ posted'[Len(posted')].by = p )
          => /\ \A m \in Frames \ {n} :
                   /\ analysisCache'[m] = analysisCache[m]
                   /\ pluginData'[m] = pluginData[m]
             /\ analysisCache'[n].kind = "entry"
             /\ analysisCache'[n].contentHash = ContentHashOf[doc[n]]
             /\ \A i \in DOMAIN analysisCache'[n].results :
                   analysisCache'[n].results[i].elementId \in SubtreeIds(n) ]_vars

\* C35: whenever tier 1 holds an entry for a frame, the plugin data of that
\* frame holds the same entry: it parses, and timestamp, version, contentHash
\* and results are those of the tier-1 entry.
C35_TierOneInTierTwo ==
    \A n \in Frames :
        analysisCache[n].kind = "entry"
        => /\ pluginData[n].kind = "json"
           /\ JSONparse(pluginData[n]) = analysisCache[n]

\* The element of the issue with index i in a delivered result (None when
\* the result has no such issue).
DeliveredElement(msg, i) ==
    LET hits == {g \in DOMAIN msg.issues :
                    \E k \in DOMAIN msg.issues[g].issues : msg.issues[g].issues[k].index = i}
    IN  IF hits = {} THEN None ELSE msg.issues[CHOOSE g \in hits : TRUE].elementId

\* C36: an 'apply-fix' that follows the delivery of a result for the selected
\* frame (fresh or from the cache, with or without an overlay) acts on the
\* element of the issue that has the given index in that result: the fix is
\* applied to that node and to no other, and 'fix-applied' is posted, or an
\* error when the host refuses; when the result has no issue of that index, an
\* error is posted and the document stays as it is.
C36_FixActsOnDelivered ==
    [][ \A i \in FixIndexes, fix \in Fixes, fontOk \in BOOLEAN :
          ( /\ posted # <<>>
            /\ posted[Len(posted)].type = "analysis-complete"
            /\ selectedFrame # None
            /\ ApplyFix(i, fix, fontOk) )
          => LET element == DeliveredElement(posted[Len(posted)], i)
             IN  /\ posted' # <<>>
                 /\ IF element # None /\ fontOk
                    THEN /\ posted'[1].type = "fix-applied"
                         /\ doc' = [f \in Frames |-> WithFix(doc[f], element, fix)]
                    ELSE /\ posted'[1].type = "error"
                         /\ doc' = doc ]_vars

\* C37: an 'apply-fix' that changes a node inside a frame leaves no entry of
\* that frame that a lookup returns: the next 'analyze' without
\* forceReanalyze finds nothing and runs a fresh analysis.
C37_FixInvalidatesEntry ==
    [][ \A n \in Frames :
          ( /\ doc'[n] # doc[n]
            /\ \E i \in FixIndexes, fix \in Fixes : ApplyFix(i, fix, TRUE) )
          => LET after == getCachedAnalysis(n)'
             IN  after.result.kind = "absent" ]_vars

\* The frame that the 'analyze' handler of the step is at work on.
AnalysedFrame == IF req[1].pc = "idle" THEN selectedFrame ELSE req[1].frame

\* A step of the 'analyze' handler that starts, continues or ends a fresh
\* analysis, up to and with the insertion of the overlay: the handler moves,
\* or it answers at once, and what it posts is not marked fromCache.
FreshStep ==
    /\ req[1].pc # "overlay"
    /\ \/ req' # req
       \/ \E i \in 1..Len(posted') : posted'[i].type = "analysis-complete"
    /\ \A i \in 1..Len(posted') :
          posted'[i].type = "analysis-complete" => ~posted'[i].fromCache

\* C38: a step of a fresh analysis of a frame, the removal of the old overlay
\* and the insertion of the new one included, changes no frame's fingerprint and
\* leaves both tiers of every other frame as they are, so that a lookup that
\* returned an entry for another frame (a frame that contains the analysed one
\* included) returns it afterwards too.
C38_FreshAnalysisIsLocal ==
    [][ FreshStep
        => \A m \in Frames :
              /\ ContentHashOf[doc'[m]] = ContentHashOf[doc[m]]
              /\ m # AnalysedFrame
                 => /\ analysisCache'[m] = analysisCache[m]
                    /\ pluginData'[m] = pluginData[m]
                    /\ Lookup(m).kind = "entry" => Lookup(m)'.kind = "entry" ]_vars

\* The handler invocation p is suspended before it has reported.
Pending(p) == req[p].pc \in {"font", "paused", "ai"}

====
